---- MODULE Spec2Model ----
(***************************************************************************)
(* Peregrine: the C-targeting code generator (codegen.cpp), its name       *)
(* mangling table (symbolTable.hpp, class MangleName) and the parser       *)
(* (parser.cpp).                                                           *)
(*                                                                         *)
(* The generator is a tree walk.  Its handlers are modelled as operators   *)
(* on the Codegen object `cg`; a handler that visits a body of arbitrary   *)
(* statements is split at that body into an Enter and an Exit step, with   *)
(* the handler's C++ locals kept in a frame of `stack`.                    *)
(***************************************************************************)
EXTENDS Naturals, Sequences, FiniteSets, TLC

VARIABLES
    cg,        \* the Codegen object: m_symbolMap, the state flags, res
    m_file,    \* the pieces the last step appended to the output file
    stack,     \* the handlers that are in the middle of their body
    status,    \* "run", "unwinding" (an exception is propagating), "dead"
    last,      \* what the last step did (the node visited, its identifiers)
    visited,   \* the number of handler steps taken so far
    parser,    \* the Parser object: m_tokens, m_tokIndex, m_currentToken, m_errors
    statements,\* Parser::parse: the statements parsed so far
    displayed, \* the error records passed to display()
    pstatus    \* "parsing", "reporting", "returned", "exited", "bad_alloc"

gvars == <<cg, m_file, stack, status, last, visited>>

pvars == <<parser, statements, displayed, pstatus>>

vars == <<cg, m_file, stack, status, last, visited,
          parser, statements, displayed, pstatus>>

----------------------------------------------------------------------------
(* Bounds *)

MaxDepth == 2      \* nesting depth of constructs with a body
MaxVisits == 3     \* handler steps of one traversal
MaxEnums == 1      \* length of the enum_name list
MaxTokens == 4     \* tokens of a source program before its EOF
MaxErrors == 12    \* error records the parser's memory can hold
MaxVars == 3       \* loop variables of a for statement
MaxDecorators == 2 \* decorator lines (and decorators) of a function
MaxReturns == 2    \* components of a tuple return type
MaxResources == 2  \* resources of a with statement
MaxClauses == 2    \* except clauses of a try statement
MaxNest == 3       \* nesting depth of function, class and with bodies
MaxCursor == 4     \* calls of advance and expect on one parser

----------------------------------------------------------------------------
(* Names and files *)

\* the source file name, character by character: a.pg
FileChars == <<"a", ".", "p", "g">>

\* identifiers of the source program
Names == {"f", "x", "E", "a____pgx", "printf"}

Reserved == {"printf", "error"}

PREFIX == "____PEREGRINE____PEREGRINE____"

ENUMSEP == "________PEREGRINE____PEREGRINE____"

RECURSIVE global_name(_)
global_name(name) ==
    IF name = <<>> THEN ""
    ELSE LET c == Head(name)
         IN (IF c = "\\" \/ c = "/" \/ c = "." THEN "____" ELSE c)
                \o global_name(Tail(name))

m_global_name == global_name(FileChars)

----------------------------------------------------------------------------
(* class MangleName: two std::map<string,string> *)

EmptyMap == [n \in {} |-> ""]

NewMangleName == [m_global_names |-> EmptyMap, m_local_names |-> EmptyMap]

\* std::map operator[] assignment
MapPut(m, k, v) == [n \in (DOMAIN m) \cup {k} |-> IF n = k THEN v ELSE m[n]]

set_local(sm, original) ==
    [sm EXCEPT !.m_local_names = MapPut(@, original, PREFIX \o original)]

set_global(sm, original, mangled) ==
    [sm EXCEPT !.m_global_names = MapPut(@, original, mangled)]

clear_local(sm) == [sm EXCEPT !.m_local_names = EmptyMap]

contains(sm, name) ==
    IF name = "error" \/ name = "printf" THEN TRUE
    ELSE IF name \in DOMAIN sm.m_local_names THEN TRUE
    ELSE IF name \in DOMAIN sm.m_global_names THEN TRUE
    ELSE FALSE

\* operator[] that tries the global map before the local map
lookup_GlobalFirst(sm, name) ==
    IF name = "printf" \/ name = "error" THEN name
    ELSE IF name \in DOMAIN sm.m_global_names THEN sm.m_global_names[name]
    ELSE IF name \in DOMAIN sm.m_local_names THEN sm.m_local_names[name]
    ELSE name

lookup(sm, name) ==
    IF name = "printf" \/ name = "error" THEN name
    ELSE IF name \in DOMAIN sm.m_local_names THEN sm.m_local_names[name]
    ELSE IF name \in DOMAIN sm.m_global_names THEN sm.m_global_names[name]
    ELSE name

----------------------------------------------------------------------------
(* Codegen: construction and write *)

NewCodegen ==
    [ m_symbolMap    |-> NewMangleName,
      local          |-> FALSE,
      is_ref         |-> FALSE,
      is_define      |-> FALSE,
      is_func_def    |-> FALSE,
      is_class       |-> FALSE,
      is_dot_exp     |-> FALSE,
      save           |-> FALSE,
      res            |-> <<>>,
      curr_enum_name |-> "",
      enum_name      |-> <<>>,
      out            |-> <<>>,
      idlog          |-> <<>> ]

\* write(code): into the accumulator res when save is set, else to the file.
\* `out` collects what the running step sends to the file; `idlog` records
\* the identifier visits of the running step (observation only).
write(s, code) ==
    IF s.save THEN [s EXCEPT !.res = Append(@, code)]
    ELSE [s EXCEPT !.out = Append(@, code)]

\* the string that a sequence of writes has built
RECURSIVE Flatten(_)
Flatten(pieces) ==
    IF pieces = <<>> THEN "" ELSE Head(pieces) \o Flatten(Tail(pieces))

----------------------------------------------------------------------------
(* Expression nodes *)

Ident(n) == [type |-> "KAstIdentifier", value |-> n]

NoLiteral == [type |-> "KAstNoLiteral"]

IntegerLiteral == [type |-> "KAstInteger", value |-> "1"]

TypeExpr(n) == [type |-> "KAstTypeExpr", value |-> n]

Dot(o, r) == [type |-> "KAstDotExpression", owner |-> o, referenced |-> r]

Call(f, a) == [type |-> "KAstFunctionCall", name |-> f, arguments |-> a]

\* IdentifierBody with the symbol-map cases tried before the enum case
IdentifierBody_MapFirst(x, s) ==
    IF s.is_ref THEN write(s, PREFIX \o x)
    ELSE LET sm == s.m_symbolMap
             sm1 == IF ~contains(sm, x)
                    THEN IF s.local
                         THEN set_local(sm, x)
                         ELSE set_global(sm, x, PREFIX \o m_global_name \o x)
                    ELSE IF s.is_define THEN set_local(sm, x)
                    ELSE sm
             s1 == [s EXCEPT !.m_symbolMap = sm1]
         IN IF s.curr_enum_name # ""
            THEN write(write(s1, lookup(sm1, s.curr_enum_name) \o ENUMSEP), x)
            ELSE write(s1, lookup(sm1, x))

\* IdentifierBody with an absent name always inserted into the global map
IdentifierBody_AlwaysGlobal(x, s) ==
    IF s.is_ref THEN write(s, PREFIX \o x)
    ELSE IF s.curr_enum_name # ""
    THEN write(write(s, lookup(s.m_symbolMap, s.curr_enum_name) \o ENUMSEP), x)
    ELSE LET sm == s.m_symbolMap
             sm1 == IF ~contains(sm, x)
                    THEN set_global(sm, x, PREFIX \o m_global_name \o x)
                    ELSE IF s.is_define THEN set_local(sm, x)
                    ELSE sm
         IN write([s EXCEPT !.m_symbolMap = sm1], lookup(sm1, x))

\* visit(IdentifierExpression)
IdentifierBody(x, s) ==
    IF s.is_ref THEN write(s, PREFIX \o x)
    ELSE IF s.curr_enum_name # ""
    THEN write(write(s, lookup(s.m_symbolMap, s.curr_enum_name) \o ENUMSEP), x)
    ELSE LET sm == s.m_symbolMap
             sm1 == IF ~contains(sm, x)
                    THEN IF s.local
                         THEN set_local(sm, x)
                         ELSE set_global(sm, x, PREFIX \o m_global_name \o x)
                    ELSE IF s.is_define THEN set_local(sm, x)
                    ELSE sm
         IN write([s EXCEPT !.m_symbolMap = sm1], lookup(sm1, x))

\* what the step has written so far, to the file or to the accumulator
Written(s) == IF s.save THEN s.res ELSE s.out

\* the identifier visit, with its entry state and its effect recorded
VisitIdentifier(x, s) ==
    LET t == IdentifierBody(x, s)
    IN [t EXCEPT !.idlog = Append(@,
            [ x              |-> x,
              is_ref         |-> s.is_ref,
              is_define      |-> s.is_define,
              local          |-> s.local,
              curr_enum_name |-> s.curr_enum_name,
              before         |-> s.m_symbolMap,
              after          |-> t.m_symbolMap,
              emitted        |-> SubSeq(Written(t), Len(Written(s)) + 1,
                                        Len(Written(t))) ])]

\* visit(TypeExpression), without generic arguments
VisitTypeExpression(x, s) ==
    IF ~contains(s.m_symbolMap, x) THEN write(s, x)
    ELSE write(s, lookup(s.m_symbolMap, x))

\* node->accept(*this), defined below the handlers it calls
RECURSIVE accept(_, _)

RECURSIVE VisitArgs(_, _, _)

\* visit(DotExpression)
VisitDotExpression(node, s) ==
    LET x  == s.is_ref
        s1 == [s EXCEPT !.is_ref = TRUE]
        s2 == IF node.owner.type # "KAstDotExpression"
                 \/ node.owner.type # "KAstArrowExpression"
              THEN [s1 EXCEPT !.is_ref = FALSE] ELSE s1
        \* owner, ".", is_ref = true, referenced
        OwnerDotRef(t) ==
            LET t1 == accept(node.owner, t)
                t2 == write(t1, ".")
                t3 == [t2 EXCEPT !.is_ref = TRUE]
            IN accept(node.referenced, t3)
        s3 == IF ~s2.is_dot_exp
              THEN LET b ==
                        IF node.owner.type = "KAstIdentifier"
                        THEN LET name == node.owner.value
                             IN IF (\E i \in 1..Len(s2.enum_name) :
                                        s2.enum_name[i] = name)
                                   /\ contains(s2.m_symbolMap, name)
                                THEN write(write(s2,
                                        lookup(s2.m_symbolMap, name) \o ENUMSEP),
                                        node.referenced.value)
                                ELSE OwnerDotRef([s2 EXCEPT !.is_dot_exp = TRUE])
                        ELSE OwnerDotRef(
                                IF node.owner.type # "KAstDotExpression"
                                THEN [s2 EXCEPT !.is_dot_exp = TRUE] ELSE s2)
                   IN [b EXCEPT !.is_dot_exp = FALSE]
              ELSE OwnerDotRef(s2)
    IN [s3 EXCEPT !.is_ref = x]

\* visit(FunctionCall)
VisitFunctionCall(node, s) ==
    LET s1 == write(accept(node.name, s), "(")
        curr_ref == s1.is_ref
        s2 == VisitArgs(node.arguments, 1, [s1 EXCEPT !.is_ref = FALSE])
    IN write([s2 EXCEPT !.is_ref = curr_ref], ")")

VisitArgs(args, i, s) ==
    IF i > Len(args) THEN s
    ELSE VisitArgs(args, i + 1,
            accept(args[i], IF i > 1 THEN write(s, ", ") ELSE s))

----------------------------------------------------------------------------
(* Statement handlers without a body of statements *)

to_string(i) ==
    CASE i = 0 -> "0" [] i = 1 -> "1" [] i = 2 -> "2" [] i = 3 -> "3"
      [] i = 4 -> "4" [] i = 5 -> "5" [] i = 6 -> "6" [] i = 7 -> "7"
      [] i = 8 -> "8" [] i = 9 -> "9"

\* visit(VariableStatement)
VisitVariableStatement(node, s) ==
    LET s1 == IF node.varType.type # "KAstNoLiteral"
              THEN write([accept(node.varType, s) EXCEPT !.is_define = TRUE],
                         " ")
              ELSE s
        s2 == [accept(node.name, s1) EXCEPT !.is_define = FALSE]
    IN IF node.value.type # "KAstNoLiteral"
       THEN accept(node.value, write(s2, " = "))
       ELSE s2

RECURSIVE UnionElements(_, _, _)
UnionElements(elements, i, s) ==
    IF i > Len(elements) THEN s
    ELSE LET s1 == write(accept(elements[i][1], s), " ")
             s2 == accept(elements[i][2], [s1 EXCEPT !.is_define = TRUE])
         IN UnionElements(elements, i + 1,
                write([s2 EXCEPT !.is_define = FALSE], ";\n"))

\* visit(UnionLiteral)
VisitUnionLiteral(node, s) ==
    LET s0 == write(s, "typedef union{\n")
        curr_state == s0.local
        symbol_map == s0.m_symbolMap
        s1 == UnionElements(node.elements, 1, [s0 EXCEPT !.local = TRUE])
        s2 == write(s1, "\n}")
        s3 == [s2 EXCEPT !.local = curr_state, !.m_symbolMap = symbol_map]
        s4 == accept(node.name, [s3 EXCEPT !.is_define = TRUE])
    IN [s4 EXCEPT !.is_define = FALSE]

RECURSIVE EnumFields(_, _, _, _)
EnumFields(node, name, i, s) ==
    IF i > Len(node.fields) THEN s
    ELSE LET field == node.fields[i]
             s1 == write(accept(node.name, s), "____")
             curr_state == s1.local
             symbol_map == s1.m_symbolMap
             s2 == accept(field.first, [s1 EXCEPT !.local = TRUE])
             s3 == [s2 EXCEPT !.local = curr_state,
                              !.m_symbolMap = symbol_map]
             s4 == IF field.second.type # "KAstNoLiteral"
                   THEN LET t1 == write([s3 EXCEPT !.curr_enum_name = name],
                                        " = ")
                            t2 == accept(field.second, t1)
                        IN [t2 EXCEPT !.curr_enum_name = ""]
                   ELSE s3
             s5 == IF i # Len(node.fields) THEN write(s4, ",\n") ELSE s4
         IN EnumFields(node, name, i + 1, s5)

\* visit(EnumLiteral)
VisitEnumLiteral(node, s) ==
    LET s0 == write(s, "typedef enum{\n")
        name == node.name.value
        s1 == [s0 EXCEPT !.enum_name = Append(@, name)]
        s2 == EnumFields(node, name, 1, s1)
    IN accept(node.name, write(s2, "\n}"))

----------------------------------------------------------------------------
(* Handlers with a body: the part before the body and the part after it *)

\* TurpleTypes(returnType): the component types of a tuple return type,
\* empty for any other type
TurpleTypes(returnType) ==
    IF returnType.type = "KAstTypeTuple" THEN returnType.items ELSE <<>>

RECURSIVE codegenFuncParams(_, _, _, _)
codegenFuncParams(parameters, start, i, s) ==
    IF i >= Len(parameters) THEN s
    ELSE LET p  == parameters[i + 1]
             s0 == IF i - start # 0 THEN write(s, ", ") ELSE s
             s1 == IF p.p_type.type = "KAstNoLiteral" THEN write(s0, "auto")
                   ELSE accept(p.p_type, s0)
             s2 == accept(p.p_name, [write(s1, " ") EXCEPT !.is_define = TRUE])
             s3 == [s2 EXCEPT !.is_define = FALSE]
             s4 == IF p.p_default.type # "KAstNoLiteral"
                   THEN accept(p.p_default, write(s3, "="))
                   ELSE s3
         IN codegenFuncParams(parameters, start, i + 1, s4)

\* ReturnParams that writes a comma after every out-parameter
RECURSIVE ReturnParams_TrailingComma(_, _, _)
ReturnParams_TrailingComma(return_type, i, s) ==
    IF i >= Len(return_type) THEN s
    ELSE LET s1 == write(accept(return_type[i + 1], s),
                         "*____PEREGRINE____RETURN____" \o to_string(i)
                            \o "=NULL")
         IN ReturnParams_TrailingComma(return_type, i + 1, write(s1, ","))

RECURSIVE ReturnParams(_, _, _)
ReturnParams(return_type, i, s) ==
    IF i >= Len(return_type) THEN s
    ELSE LET s1 == write(accept(return_type[i + 1], s),
                         "*____PEREGRINE____RETURN____" \o to_string(i)
                            \o "=NULL")
             s2 == IF i + 1 < Len(return_type) THEN write(s1, ",") ELSE s1
         IN ReturnParams(return_type, i + 1, s2)

\* the locals a handler keeps while its body is visited
Frame(kind, variant, curr_state, symbol_map, no_var, visit_map, node) ==
    [ kind       |-> kind,          \* "function", "class", "with"
      node       |-> node,          \* the node being visited
      variant    |-> variant,       \* "main", "top", "nested", ""
      curr_state |-> curr_state,    \* local_mangle_start: the saved local
      symbol_map |-> symbol_map,    \* local_mangle_start: the saved map
      no_var     |-> no_var,        \* WithStatement: the context numbers
      visit_map  |-> visit_map ]    \* (observation) the map when the visit began

\* visit(FunctionDefinition), up to node.body()->accept
FunctionDefinitionHead(node, s) ==
    LET return_type  == TurpleTypes(node.returnType)
        functionName == node.name.value
        visit_map    == s.m_symbolMap
        Params(t) ==
            LET t1 == codegenFuncParams(node.parameters, 0, 0, t)
                t2 == IF Len(return_type) > 0 /\ Len(node.parameters) > 0
                      THEN write(t1, ",") ELSE t1
            IN ReturnParams(return_type, 0, t2)
        ReturnType(t) == IF Len(return_type) = 0
                         THEN accept(node.returnType, t)
                         ELSE write(t, "void")
    IN IF ~s.is_func_def
       THEN LET s0 == [s EXCEPT !.is_func_def = TRUE]
            IN IF functionName = "main"
               THEN LET s1 == write(s0, "int main (")
                        s2 == [s1 EXCEPT !.m_symbolMap =
                                            set_global(@, "main", "main")]
                        s3 == codegenFuncParams(node.parameters, 0, 0,
                                    [s2 EXCEPT !.local = TRUE])
                    IN [ s |-> write(s3, ") {\n"),
                         frame |-> Frame("function", "main", s2.local,
                                         s2.m_symbolMap, <<>>, visit_map, node) ]
               ELSE LET s1 == write(ReturnType(s0), " ")
                        s2 == accept(node.name, [s1 EXCEPT !.is_define = TRUE])
                        s3 == write([s2 EXCEPT !.is_define = FALSE], "(")
                        s4 == Params([s3 EXCEPT !.local = TRUE])
                    IN [ s |-> write(s4, ") {\n"),
                         frame |-> Frame("function", "top", s3.local,
                                         s3.m_symbolMap, <<>>, visit_map, node) ]
       ELSE LET s1 == write([s EXCEPT !.local = TRUE], "auto ")
                s2 == accept(node.name, [s1 EXCEPT !.is_define = TRUE])
                s3 == write([s2 EXCEPT !.is_define = FALSE], "=[=](")
                s4 == write(Params(s3), ")mutable->")
                s5 == write(ReturnType(s4), " {\n")
            IN [ s |-> s5,
                 frame |-> Frame("function", "nested", s.local,
                                 s.m_symbolMap, <<>>, visit_map, node) ]

\* FunctionDefinitionTail with a local_mangle_end that restores local only
FunctionDefinitionTail_KeepMap(frame, s) ==
    LET s1 == write(s, IF frame.variant = "main" THEN "return 0;\n}" ELSE "\n}")
        s2 == [s1 EXCEPT !.local = frame.curr_state]
    IN IF frame.variant = "nested" THEN s2
       ELSE [s2 EXCEPT !.is_func_def = FALSE]

\* FunctionDefinitionTail that closes main like any other function
FunctionDefinitionTail_NoReturn(frame, s) ==
    LET s1 == write(s, "\n}")
        s2 == [s1 EXCEPT !.local = frame.curr_state,
                         !.m_symbolMap = frame.symbol_map]
    IN IF frame.variant = "nested" THEN s2
       ELSE [s2 EXCEPT !.is_func_def = FALSE]

\* FunctionDefinitionTail that clears is_func_def in the lambda branch too
FunctionDefinitionTail_ClearNested(frame, s) ==
    LET s1 == write(s, IF frame.variant = "main" THEN "return 0;\n}" ELSE "\n}")
        s2 == [s1 EXCEPT !.local = frame.curr_state,
                         !.m_symbolMap = frame.symbol_map]
    IN [s2 EXCEPT !.is_func_def = FALSE]

\* visit(FunctionDefinition), after node.body()->accept
FunctionDefinitionTail(frame, s) ==
    LET s1 == write(s, IF frame.variant = "main" THEN "return 0;\n}" ELSE "\n}")
        s2 == [s1 EXCEPT !.local = frame.curr_state,
                         !.m_symbolMap = frame.symbol_map]
    IN IF frame.variant = "nested" THEN s2
       ELSE [s2 EXCEPT !.is_func_def = FALSE]

\* visit(ExportStatement), up to the body of the exported function
ExportStatementHead(node, s) ==
    LET s1   == write(s, "extern \"C\" ")
        name == node.body.name.value
        s2   == [s1 EXCEPT !.m_symbolMap = set_global(@, name, name)]
    IN accept(node.body, s2)

RECURSIVE ClassParents(_, _, _)
ClassParents(parents, i, s) ==
    IF i >= Len(parents) THEN s
    ELSE LET s1 == accept(parents[i + 1], write(s, "public "))
         IN ClassParents(parents, i + 1,
                IF i + 1 < Len(parents) THEN write(s1, ",") ELSE s1)

\* visit(ClassDefinition), up to the attributes
ClassDefinitionHead(node, s) ==
    LET s1 == accept(node.name, [write(s, "class ") EXCEPT !.is_define = TRUE])
        s2 == [s1 EXCEPT !.is_define = FALSE]
        s3 == IF Len(node.parent) # 0 THEN write(s2, ":") ELSE s2
        s4 == write(ClassParents(node.parent, 0, s3), "\n{")
        s5 == write([s4 EXCEPT !.local = TRUE], "public:\n")
    IN [ s |-> [s5 EXCEPT !.is_class = TRUE],
         frame |-> Frame("class", "", s4.local, s4.m_symbolMap, <<>>,
                         s.m_symbolMap, node) ]

\* visit(ClassDefinition), after the attributes (a class without methods)
ClassDefinitionTail(frame, s) ==
    LET s1 == write([s EXCEPT !.is_class = FALSE], "\n}")
    IN [s1 EXCEPT !.local = frame.curr_state, !.m_symbolMap = frame.symbol_map]

RECURSIVE WithValues(_, _, _, _)
WithValues(node, i, no_var, s) ==
    IF i >= Len(node.values) THEN [s |-> s, no_var |-> no_var]
    ELSE LET s1 == write(s, "auto CONTEXT____MANAGER____PEREGRINE____")
             nv == Append(no_var, to_string(i))
             s2 == write(write(s1, to_string(i)), "=")
             s3 == write(accept(node.values[i + 1], s2), ";\n")
             s4 == IF node.variables[i + 1].type # "KAstNoLiteral"
                   THEN write(accept(node.variables[i + 1],
                                        write(s3, "auto ")), "=")
                   ELSE s3
             s5 == write(s4, "CONTEXT____MANAGER____PEREGRINE____"
                                \o nv[Len(nv)])
             s6 == write(s5, ".____PEREGRINE____PEREGRINE______enter__()")
         IN WithValues(node, i + 1, nv, write(s6, ";\n"))

\* visit(WithStatement), up to node.body()->accept
WithStatementHead(node, s) ==
    LET r == WithValues(node, 0, <<>>, write(s, "{\n"))
    IN [ s |-> r.s,
         frame |-> Frame("with", "", s.local, s.m_symbolMap, r.no_var,
                         s.m_symbolMap, node) ]

\* WithEnds that names the last context in every iteration
RECURSIVE WithEnds_Back(_, _, _)
WithEnds_Back(no_var, i, s) ==
    IF i > Len(no_var) THEN s
    ELSE WithEnds_Back(no_var, i + 1,
            write(write(s, "CONTEXT____MANAGER____PEREGRINE____"
                                \o no_var[Len(no_var)]),
                  ".____PEREGRINE____PEREGRINE______end__();\n"))

RECURSIVE WithEnds(_, _, _)
WithEnds(no_var, i, s) ==
    IF i > Len(no_var) THEN s
    ELSE WithEnds(no_var, i + 1,
            write(write(s, "CONTEXT____MANAGER____PEREGRINE____" \o no_var[i]),
                  ".____PEREGRINE____PEREGRINE______end__();\n"))

\* visit(WithStatement), after node.body()->accept
WithStatementTail(frame, s) == write(WithEnds(frame.no_var, 1, s), "\n}\n")

\* wrap(item, contains): the call of the decorator item on the text it is
\* given (the local `contains` of the handler), built in the accumulator
Wrapped(s1, contained) ==
    [ s    |-> [s1 EXCEPT !.res = <<>>],
      text |-> Flatten(s1.res) \o "(" \o contained \o ")" ]

wrap(item, contained, s) ==
    Wrapped(accept(item, [s EXCEPT !.res = <<>>]), contained)

\* the loop over the return components in visit(DecoratorStatement)
RECURSIVE DecoratorReturnParams(_, _, _)
DecoratorReturnParams(return_type, i, s) ==
    IF i >= Len(return_type) THEN s
    ELSE LET s1 == write(write(accept(return_type[i + 1], s), "*"),
                         "____PEREGRINE____RETURN____" \o to_string(i)
                            \o "=NULL")
             s2 == IF i + 1 < Len(return_type) THEN write(s1, ",") ELSE s1
         IN DecoratorReturnParams(return_type, i + 1, s2)

\* visit(DecoratorStatement) of a decorated function, up to the body of the
\* function
DecoratorStatementHead(node, s) ==
    LET function == node.body
        s0   == [s EXCEPT !.save = TRUE]
        prev == IF Flatten(s0.res) # "" THEN Flatten(s0.res) ELSE ""
        s1   == IF Flatten(s0.res) # "" THEN [s0 EXCEPT !.res = <<>>] ELSE s0
        s2   == write(s1, "auto ")
        s3   == accept(function.name, [s2 EXCEPT !.is_define = TRUE])
        s4   == write([s3 EXCEPT !.is_define = FALSE], "=")
        x    == Flatten(s4.res)
        s5   == write([s4 EXCEPT !.res = <<>>],
                      IF s4.is_func_def THEN "[=](" ELSE "[](")
        return_type == TurpleTypes(function.returnType)
        s6   == codegenFuncParams(function.parameters, 0, 0,
                                  [s5 EXCEPT !.local = TRUE])
        s7   == IF Len(return_type) > 0 /\ Len(function.parameters) > 0
                THEN write(s6, ",") ELSE s6
        s8   == write(DecoratorReturnParams(return_type, 0, s7), ")mutable->")
        s9   == IF Len(return_type) = 0
                THEN accept(function.returnType, s8)
                ELSE write(s8, "void")
        s10  == write(s9, "{\n")
    IN [ s |-> [s10 EXCEPT !.is_func_def = TRUE],
         frame |-> Frame("decorator",
                         IF ~s10.is_func_def THEN "top" ELSE "nested",
                         s5.local, s5.m_symbolMap, <<>>, s.m_symbolMap, node)
                    @@ [prev |-> prev, x |-> x] ]

\* the loop of visit(DecoratorStatement) over the items, first item first
RECURSIVE DecoratorFold_Forward(_, _, _)
DecoratorFold_Forward(items, i, w) ==
    IF i = 0 THEN w
    ELSE DecoratorFold_Forward(items, i - 1,
            wrap(items[Len(items) + 1 - i], w.text, w.s))

\* the loop of visit(DecoratorStatement) over the items, last item first:
\* contains = wrap(items[i], contains) for i = size-1 down to 0; w holds the
\* generator and the text of `contains`
RECURSIVE DecoratorFold(_, _, _)
DecoratorFold(items, i, w) ==
    IF i = 0 THEN w
    ELSE DecoratorFold(items, i - 1, wrap(items[i], w.text, w.s))

\* the last writes of visit(DecoratorStatement), save left as it is
DecoratorWrite_KeepSave(frame, w) ==
    IF frame.prev = ""
    THEN write(w.s, frame.x \o w.text)
    ELSE write(w.s, frame.prev \o frame.x \o w.text)

\* the last writes of visit(DecoratorStatement)
DecoratorWrite(frame, w) ==
    IF frame.prev = ""
    THEN write([w.s EXCEPT !.save = FALSE], frame.x \o w.text)
    ELSE write(w.s, frame.prev \o frame.x \o w.text)

\* visit(DecoratorStatement) of a decorated function, after the body
DecoratorStatementTail(frame, s) ==
    LET items == frame.node.decoratorItem
        s1 == IF frame.variant = "top"
              THEN [s EXCEPT !.is_func_def = FALSE] ELSE s
        s2 == write(s1, "\n}")
        s3 == [s2 EXCEPT !.local = frame.curr_state,
                         !.m_symbolMap = frame.symbol_map]
        contained == Flatten(s3.res)
    IN DecoratorWrite(frame,
            DecoratorFold(items, Len(items),
                          [s |-> [s3 EXCEPT !.res = <<>>], text |-> contained]))

RECURSIVE VisitBlockStatement(_, _, _)
\* visit(BlockStatement) of a block of statements without a body
VisitBlockStatement(stmts, i, s) ==
    IF i > Len(stmts) THEN s
    ELSE VisitBlockStatement(stmts, i + 1,
            write(accept(stmts[i], write(s, "    ")), ";\n"))

RECURSIVE ExceptNames(_, _, _)
\* visit(TryExcept): the loop over the exception names of a clause
ExceptNames(names, i, s) ==
    IF i >= Len(names) THEN s
    ELSE LET s1 == accept(names[i + 1], write(s, "__PEREGRINE__exception=="))
         IN ExceptNames(names, i + 1,
                IF i + 1 < Len(names) THEN write(s1, " or ") ELSE s1)

\* visit(TryExcept): one clause x, after "if (" or "else if ("
ExceptClause(x, s) ==
    LET s1 == write(ExceptNames(x.names, 0, s), "){\n")
        s2 == IF x.alias.type # "KAstNoLiteral"
              THEN write(accept(x.alias, write(s1, "auto ")),
                         "=__PEREGRINE__exception;\n")
              ELSE s1
    IN write(accept(x.handler, s2), "}\n")

RECURSIVE ExceptClauses(_, _, _)
\* visit(TryExcept): the loop over the clauses after the first
ExceptClauses(clauses, i, s) ==
    IF i >= Len(clauses) THEN s
    ELSE ExceptClauses(clauses, i + 1,
            ExceptClause(clauses[i + 1], write(s, "else if (")))

\* visit(TryExcept)
VisitTryExcept(node, s) ==
    LET clauses == node.except_clauses
        s1 == write(accept(node.body, write(s, "try{\n")),
                    "}\ncatch(error __PEREGRINE__exception){\n")
        s2 == IF Len(clauses) > 0
              THEN ExceptClauses(clauses, 1,
                        ExceptClause(clauses[1], write(s1, "if (")))
              ELSE s1
        s3 == IF node.else_body.type # "KAstNoLiteral"
              THEN IF Len(clauses) > 0
                   THEN write(accept(node.else_body, write(s2, "else{")),
                              "}\n")
                   ELSE accept(node.else_body, s2)
              ELSE IF Len(clauses) > 0
                   THEN write(write(write(s2, "else{"),
                                    "throw __PEREGRINE__exception;\n"),
                              "}\n")
                   ELSE write(s2, "throw __PEREGRINE__exception;\n")
    IN write(s3, "}")

\* node->accept(*this): the visit of an expression or of a statement without
\* a body of statements, and the visit up to the body for the other statements
accept(node, s) ==
    CASE node.type = "KAstIdentifier"    -> VisitIdentifier(node.value, s)
      [] node.type = "KAstTypeExpr"      -> VisitTypeExpression(node.value, s)
      [] node.type = "KAstNoLiteral"     -> s
      [] node.type = "KAstInteger"       -> write(s, node.value)
      [] node.type = "KAstDotExpression" -> VisitDotExpression(node, s)
      [] node.type = "KAstFunctionCall"  -> VisitFunctionCall(node, s)
      [] node.type = "KAstVariableStmt"  -> VisitVariableStatement(node, s)
      [] node.type = "KAstUnion"         -> VisitUnionLiteral(node, s)
      [] node.type = "KAstEnum"          -> VisitEnumLiteral(node, s)
      [] node.type = "KAstFunctionDef"   -> FunctionDefinitionHead(node, s)
      [] node.type = "KAstExportStmt"    -> ExportStatementHead(node, s)
      [] node.type = "KAstClassDef"      -> ClassDefinitionHead(node, s)
      [] node.type = "KAstWith"          -> WithStatementHead(node, s)
      [] node.type = "KAstBlockStmt"     ->
            VisitBlockStatement(node.statements, 1, s)
      [] node.type = "KAstTryExcept"     -> VisitTryExcept(node, s)
      [] node.type = "KAstDecorator"     -> DecoratorStatementHead(node, s)


----------------------------------------------------------------------------
(* Parser: tokens, cursor and errors *)

Tok(k, kw) == [tkType |-> k, keyword |-> kw]

EofToken == Tok("tk_eof", "")

\* next() past the end returns a default-constructed Token
ZeroToken == Tok("tk_zero", "")

PrecedenceType ==
    << "pr_lowest", "pr_and_or", "pr_not", "pr_compare", "pr_bit_or",
       "pr_bit_xor", "pr_bit_and", "pr_bit_shift", "pr_sum_minus",
       "pr_mul_div", "pr_expo", "pr_prefix", "pr_dot_ref", "pr_list_access",
       "pr_call" >>

\* the position of a level in the enumeration
Level(pr) == CHOOSE i \in 1..Len(PrecedenceType) : PrecedenceType[i] = pr

\* createMap()
precedenceMap ==
    [ tk_negative |-> "pr_prefix", tk_bit_not |-> "pr_prefix",
      tk_and |-> "pr_and_or", tk_or |-> "pr_and_or",
      tk_not |-> "pr_not",
      tk_not_equal |-> "pr_compare", tk_is_not |-> "pr_compare",
      tk_is |-> "pr_compare", tk_not_in |-> "pr_compare",
      tk_in |-> "pr_compare", tk_greater |-> "pr_compare",
      tk_less |-> "pr_compare", tk_gr_or_equ |-> "pr_compare",
      tk_less_or_equ |-> "pr_compare", tk_equal |-> "pr_compare",
      tk_bit_or |-> "pr_bit_or", tk_xor |-> "pr_bit_xor",
      tk_bit_and |-> "pr_bit_and",
      tk_shift_left |-> "pr_bit_shift", tk_shift_right |-> "pr_bit_shift",
      tk_plus |-> "pr_sum_minus", tk_minus |-> "pr_sum_minus",
      tk_multiply |-> "pr_mul_div", tk_divide |-> "pr_mul_div",
      tk_modulo |-> "pr_mul_div", tk_floor |-> "pr_mul_div",
      tk_exponent |-> "pr_expo",
      tk_dot |-> "pr_dot_ref",
      tk_list_open |-> "pr_list_access",
      tk_l_paren |-> "pr_call" ]

\* Parser::Parser(tokens)
NewParser(tokens) ==
    [ m_tokens       |-> tokens,
      m_tokIndex     |-> 0,
      m_currentToken |-> tokens[1],
      m_errors       |-> <<>>,
      thrown         |-> FALSE ]   \* an exception is leaving the parser

\* Parser::advance without the refresh of m_currentToken
advance_NoRefresh(p) ==
    IF p.thrown THEN p
    ELSE [p EXCEPT !.m_tokIndex = p.m_tokIndex + 1]

\* Parser::advance
advance(p) ==
    IF p.thrown THEN p
    ELSE LET i == p.m_tokIndex + 1
         IN [p EXCEPT !.m_tokIndex = i,
                      !.m_currentToken =
                            IF i < Len(p.m_tokens) THEN p.m_tokens[i + 1] ELSE @]

\* Parser::next
next(p) ==
    IF p.m_tokIndex + 1 < Len(p.m_tokens) THEN p.m_tokens[p.m_tokIndex + 2]
    ELSE ZeroToken

\* Parser::advanceOnNewLine
advanceOnNewLine(p) ==
    IF next(p).tkType = "tk_new_line" THEN advance(p) ELSE p

\* Parser::nextPrecedence
nextPrecedence(p) ==
    IF next(p).tkType \in DOMAIN precedenceMap
    THEN precedenceMap[next(p).tkType] ELSE "pr_lowest"

\* Parser::error; push_back throws std::bad_alloc when the memory is used up
error(p, tok, msg) ==
    IF p.thrown THEN p
    ELSE IF Len(p.m_errors) >= MaxErrors THEN [p EXCEPT !.thrown = TRUE]
    ELSE [p EXCEPT !.m_errors = Append(@, [tok |-> tok, msg |-> msg])]

\* Parser::expect without the error record
expect_Silent(p, expectedType) == advance(p)

\* Parser::expect
expect(p, expectedType) ==
    advance(IF next(p).tkType # expectedType
            THEN error(p, next(p),
                       "expected token of type " \o expectedType \o ", got "
                            \o next(p).tkType \o " instead")
            ELSE p)

----------------------------------------------------------------------------
(* Parser: the parse routines; each returns the parser and the node *)

NullNode == [type |-> "null"]

R(p, node) == [p |-> p, node |-> node]

\* this->fn(a): a call of the parse routine fn, defined below the routines
RECURSIVE call(_, _, _)

RECURSIVE BlockLoop(_, _), InfixLoop(_, _, _), CallArguments(_, _)

RECURSIVE ParameterLoop(_, _), DecoratorLoop(_)

\* Parser::parseIdentifier
parseIdentifier(p) ==
    R(p, [type |-> "KAstIdentifier", value |-> p.m_currentToken.keyword])

\* Parser::parseType
parseType(p) ==
    R(p, [type |-> "KAstTypeExpr", value |-> p.m_currentToken.keyword])

\* Parser::parseName
parseName(p) ==
    parseIdentifier(
        IF p.m_currentToken.tkType # "tk_identifier"
        THEN error(p, p.m_currentToken,
                   "expected an identifier, got " \o p.m_currentToken.tkType
                        \o " instead")
        ELSE p)

\* Parser::parseStatement, for the token kinds of the modelled programs
parseStatement(p) ==
    LET t == p.m_currentToken.tkType
    IN CASE t = "tk_at" -> call("parseDecoratorCall", p, NullNode)
         [] t = "tk_while" -> call("parseWhile", p, NullNode)
         [] t = "tk_for" -> call("parseFor", p, NullNode)
         [] t = "tk_def" -> call("parseFunctionDef", p, NullNode)
         [] t = "tk_break" ->
                R(advanceOnNewLine(p), [type |-> "KAstBreakStatement"])
         [] t = "tk_pass" ->
                R(advanceOnNewLine(p), [type |-> "KAstPassStatement"])
         [] t = "tk_continue" ->
                R(advanceOnNewLine(p), [type |-> "KAstContinueStatement"])
         [] t = "tk_identifier"
                /\ (next(p).tkType = "tk_identifier"
                        \/ next(p).tkType = "tk_assign") ->
                call("parseVariableStatement", p, NullNode)
         [] OTHER -> call("parseExpression", p, "pr_lowest")

\* Parser::parseBlockStatement
parseBlockStatement(p) ==
    LET r == BlockLoop(advance(p), <<>>)
    IN R(r.p, [type |-> "KAstBlockStmt", statements |-> r.node])

\* the while loop of parseBlockStatement
BlockLoop(p, stmts) ==
    IF p.thrown \/ p.m_currentToken.tkType = "tk_dedent" THEN R(p, stmts)
    ELSE LET p1 == IF p.m_currentToken.tkType = "tk_eof"
                   THEN error(p, p.m_currentToken,
                              "expected end of identation, got eof instead")
                   ELSE p
             r  == call("parseStatement", p1, NullNode)
         IN BlockLoop(advance(r.p), Append(stmts, r.node))

\* Parser::parseVariableStatement
parseVariableStatement(p) ==
    LET typed == next(p).tkType = "tk_identifier"
        varType == IF typed THEN parseType(p).node ELSE NoLiteral
        p1 == IF typed THEN advance(p) ELSE p
        n  == parseName(p1)
    IN IF next(n.p).tkType = "tk_assign"
       THEN LET v == call("parseExpression", advance(advance(n.p)),
                          "pr_lowest")
            IN R(v.p, [type |-> "KAstVariableStmt", varType |-> varType,
                       name |-> n.node, value |-> v.node])
       ELSE R(advanceOnNewLine(n.p),
              [type |-> "KAstVariableStmt", varType |-> varType,
               name |-> n.node, value |-> NoLiteral])

\* Parser::parseWhile
parseWhile(p) ==
    LET c  == call("parseExpression", advance(p), "pr_lowest")
        p1 == expect(expect(c.p, "tk_colon"), "tk_ident")
        b  == call("parseBlockStatement", p1, NullNode)
    IN R(b.p, [type |-> "KAstWhileStmt", condition |-> c.node,
               body |-> b.node])

\* Parser::parseFor
parseFor(p) ==
    LET variable == parseName(advance(p))
        sequence == call("parseExpression",
                         advance(expect(variable.p, "tk_in")), "pr_lowest")
        p1 == expect(expect(sequence.p, "tk_colon"), "tk_ident")
        body == call("parseBlockStatement", p1, NullNode)
    IN R(body.p, [type |-> "KAstForStatement", variable |-> variable.node,
                  sequence |-> sequence.node, body |-> body.node])

\* the do-while loop of parseFunctionDef
ParameterLoop(p, parameters) ==
    LET p1 == advance(p)
        p2 == IF p1.m_currentToken.tkType # "tk_identifier"
              THEN error(p1, next(p1),
                         "expected token of type tk_identifier, got "
                            \o p1.m_currentToken.tkType \o " instead")
              ELSE p1
        paramType == parseType(p2)
        paramName == parseName(expect(paramType.p, "tk_identifier"))
        ps == Append(parameters,
                     [p_type |-> paramType.node, p_name |-> paramName.node])
        p3 == advance(paramName.p)
    IN IF ~p3.thrown /\ p3.m_currentToken.tkType = "tk_comma"
       THEN ParameterLoop(p3, ps) ELSE R(p3, ps)

\* Parser::parseFunctionDef
parseFunctionDef(p) ==
    LET name == parseName(expect(p, "tk_identifier"))
        p1 == expect(name.p, "tk_l_paren")
        parameters == IF next(p1).tkType # "tk_r_paren"
                      THEN ParameterLoop(p1, <<>>)
                      ELSE R(advance(p1), <<>>)
        p2 == IF parameters.p.m_currentToken.tkType # "tk_r_paren"
              THEN error(parameters.p, parameters.p.m_currentToken,
                         "expected ), got "
                            \o parameters.p.m_currentToken.keyword
                            \o " instead")
              ELSE parameters.p
        returnType ==
            IF next(p2).tkType = "tk_arrow"
            THEN parseType(expect(advance(p2), "tk_identifier"))
            ELSE R(p2, [type |-> "KAstIdentifier", value |-> "void"])
        p3 == expect(expect(returnType.p, "tk_colon"), "tk_ident")
        body == call("parseBlockStatement", p3, NullNode)
    IN R(body.p, [type |-> "KAstFunctionDef", returnType |-> returnType.node,
                  name |-> name.node, parameters |-> parameters.node,
                  body |-> body.node])

\* the while loop of parseDecoratorCall: the parsed expression is not kept
DecoratorLoop(p) ==
    IF p.thrown \/ p.m_currentToken.tkType # "tk_at" THEN p
    ELSE LET r == call("parseExpression", expect(p, "tk_identifier"),
                       "pr_lowest")
         IN DecoratorLoop(advance(r.p))

\* Parser::parseDecoratorCall
parseDecoratorCall(p) ==
    LET decorators == <<>>
        p1 == DecoratorLoop(p)
        body == IF p1.m_currentToken.tkType = "tk_def"
                THEN call("parseFunctionDef", p1, NullNode)
                ELSE R(p1, NullNode)
    IN R(body.p, [type |-> "KAstDecorator", decoratorItem |-> decorators,
                  body |-> body.node])

\* Parser::parseExpression
parseExpression(p, currPrecedence) ==
    LET t == p.m_currentToken.tkType
        prefix ==
            CASE t = "tk_integer" ->
                    R(p, [type |-> "KAstInteger",
                          value |-> p.m_currentToken.keyword])
              [] t = "tk_identifier" -> parseIdentifier(p)
              [] t = "tk_l_paren" -> call("parseGroupedExpr", p, NullNode)
              [] t \in {"tk_negative", "tk_not", "tk_bit_not"} ->
                    call("parsePrefixExpression", p, NullNode)
              [] OTHER ->
                    R(error(p, p.m_currentToken,
                            p.m_currentToken.keyword \o " is not an expression"),
                      NullNode)
        r == InfixLoop(prefix.p, prefix.node, currPrecedence)
    IN R(advanceOnNewLine(r.p), r.node)

\* the while loop of parseExpression
InfixLoop(p, left, currPrecedence) ==
    IF p.thrown \/ ~(Level(nextPrecedence(p)) > Level(currPrecedence))
    THEN R(p, left)
    ELSE LET p1 == advance(p)
             t  == p1.m_currentToken.tkType
             r  == CASE t = "tk_l_paren" -> call("parseFunctionCall", p1, left)
                     [] t = "tk_list_open" ->
                            call("parseListOrDictAccess", p1, left)
                     [] t = "tk_dot" -> call("parseDotExpression", p1, left)
                     [] OTHER -> call("parseBinaryOperation", p1, left)
         IN InfixLoop(r.p, r.node, currPrecedence)

\* parseBinaryOperation that parses its right operand at the lowest level
parseBinaryOperation_Lowest(p, left) ==
    LET op == p.m_currentToken
        r == call("parseExpression", advance(p), "pr_lowest")
    IN R(r.p, [type |-> "KAstBinaryOp", op |-> op.tkType, left |-> left,
               right |-> r.node])

\* Parser::parseBinaryOperation
parseBinaryOperation(p, left) ==
    LET op == p.m_currentToken
        precedence == precedenceMap[op.tkType]
        r == call("parseExpression", advance(p), precedence)
    IN R(r.p, [type |-> "KAstBinaryOp", op |-> op.tkType, left |-> left,
               right |-> r.node])

\* the do-while loop of parseFunctionCall
CallArguments(p, arguments) ==
    LET r  == call("parseExpression", advance(p), "pr_lowest")
        p1 == advance(r.p)
        as == Append(arguments, r.node)
    IN IF ~p1.thrown /\ p1.m_currentToken.tkType = "tk_comma"
       THEN CallArguments(p1, as) ELSE R(p1, as)

\* Parser::parseFunctionCall
parseFunctionCall(p, left) ==
    LET a  == IF next(p).tkType # "tk_r_paren" THEN CallArguments(p, <<>>)
              ELSE R(advance(p), <<>>)
        p1 == IF a.p.m_currentToken.tkType # "tk_r_paren"
              THEN error(a.p, a.p.m_currentToken,
                         "expected ), got " \o a.p.m_currentToken.keyword
                            \o " instead")
              ELSE a.p
    IN R(advanceOnNewLine(p1),
         [type |-> "KAstFunctionCall", name |-> left, arguments |-> a.node])

\* Parser::parseListOrDictAccess
parseListOrDictAccess(p, left) ==
    LET k    == call("parseExpression", advance(p), "pr_lowest")
        p1   == expect(k.p, "tk_list_close")
        node == [type |-> "KAstListOrDictAccess", container |-> left,
                 keyOrIndex |-> k.node]
    IN IF next(p1).tkType # "tk_assign" THEN R(p1, node)
       ELSE LET v == call("parseExpression", advance(advance(p1)),
                          "pr_lowest")
            IN R(advanceOnNewLine(v.p),
                 [type |-> "KAstVariableStmt", varType |-> NoLiteral,
                  name |-> node, value |-> v.node])

\* Parser::parseDotExpression
parseDotExpression(p, left) ==
    LET r == call("parseExpression", advance(p), "pr_lowest")
    IN R(r.p, [type |-> "KAstDotExpression", owner |-> left,
               referenced |-> r.node])

\* Parser::parsePrefixExpression
parsePrefixExpression(p) ==
    LET prefix == p.m_currentToken
        precedence == precedenceMap[prefix.tkType]
        r == call("parseExpression", advance(p), precedence)
    IN R(r.p, [type |-> "KAstPrefixExpr", prefix |-> prefix.tkType,
               right |-> r.node])

\* Parser::parseGroupedExpr
parseGroupedExpr(p) ==
    LET r == call("parseExpression", advance(p), "pr_lowest")
    IN R(expect(r.p, "tk_r_paren"), r.node)

\* the parse routines that call one another
call(fn, p, a) ==
    CASE fn = "parseStatement"         -> parseStatement(p)
      [] fn = "parseBlockStatement"    -> parseBlockStatement(p)
      [] fn = "parseVariableStatement" -> parseVariableStatement(p)
      [] fn = "parseWhile"             -> parseWhile(p)
      [] fn = "parseFor"               -> parseFor(p)
      [] fn = "parseFunctionDef"       -> parseFunctionDef(p)
      [] fn = "parseDecoratorCall"     -> parseDecoratorCall(p)
      [] fn = "parseExpression"        -> parseExpression(p, a)
      [] fn = "parseBinaryOperation"   -> parseBinaryOperation(p, a)
      [] fn = "parseFunctionCall"      -> parseFunctionCall(p, a)
      [] fn = "parseListOrDictAccess"  -> parseListOrDictAccess(p, a)
      [] fn = "parseDotExpression"     -> parseDotExpression(p, a)
      [] fn = "parsePrefixExpression"  -> parsePrefixExpression(p)
      [] fn = "parseGroupedExpr"       -> parseGroupedExpr(p)

----------------------------------------------------------------------------
(* Parser::parse *)

\* the token kinds of the programs parsed
TokenKinds ==
    { Tok("tk_identifier", "a"), Tok("tk_integer", "1"), Tok("tk_plus", "+"),
      Tok("tk_while", "while"), Tok("tk_colon", ":"), Tok("tk_ident", ""),
      Tok("tk_dedent", ""), Tok("tk_new_line", "") }

\* every token stream of n tokens, ended by EOF
ShortStreams(n) == {Append(ts, EofToken) : ts \in [1..n -> TokenKinds]}

TkId == Tok("tk_identifier", "a")
TkWhile == Tok("tk_while", "while")
TkColon == Tok("tk_colon", ":")
TkIndent == Tok("tk_ident", "")
TkDedent == Tok("tk_dedent", "")
TkNewLine == Tok("tk_new_line", "")

\* well-formed programs: a loop, a loop in a loop, two statement lines
Programs ==
    { <<TkWhile, TkId, TkColon, TkIndent, TkId, TkNewLine, TkDedent>>,
      <<TkWhile, TkId, TkColon, TkIndent,
            TkWhile, TkId, TkColon, TkIndent, TkId, TkNewLine, TkDedent,
        TkDedent>>,
      <<TkId, Tok("tk_plus", "+"), Tok("tk_integer", "1"), TkNewLine,
        TkId, TkId, TkNewLine>> }

\* the programs and every program cut off after some token, ended by EOF
CutPrograms ==
    UNION { {Append(SubSeq(prog, 1, n), EofToken) : n \in 0..Len(prog)} :
                prog \in Programs }

Id(n) == Tok("tk_identifier", n)

\* the body of a loop or function: ":" INDENT a NEWLINE DEDENT
BodyTokens == <<TkColon, TkIndent, TkId, TkNewLine, TkDedent>>

\* v1, ..., vn
RECURSIVE VarList(_)
VarList(n) ==
    IF n = 1 THEN <<Id("v1")>>
    ELSE VarList(n - 1) \o <<Tok("tk_comma", ","), Id("v" \o to_string(n))>>

\* for v1, ..., vn in s: body
ForProgram(n) ==
    <<Tok("tk_for", "for")>> \o VarList(n)
        \o <<Tok("tk_in", "in"), Id("s")>> \o BodyTokens \o <<EofToken>>

ForPrograms == {ForProgram(n) : n \in 1..MaxVars}

\* @d1 NEWLINE ... @dn NEWLINE
RECURSIVE DecoratorLines(_)
DecoratorLines(n) ==
    IF n = 0 THEN <<>>
    ELSE DecoratorLines(n - 1)
            \o <<Tok("tk_at", "@"), Id("d" \o to_string(n)), TkNewLine>>

\* n decorator lines and def f(): body
DecoratorProgram(n) ==
    DecoratorLines(n)
        \o <<Tok("tk_def", "def"), Id("f"), Tok("tk_l_paren", "("),
             Tok("tk_r_paren", ")")>> \o BodyTokens \o <<EofToken>>

DecoratorPrograms == {DecoratorProgram(n) : n \in 1..MaxDecorators}

\* the operators with an infix rule of their own, and the binary operators
BinaryOperators ==
    DOMAIN precedenceMap
        \ {"tk_negative", "tk_bit_not", "tk_not",
            "tk_l_paren", "tk_list_open", "tk_dot"}

InfixTokens == BinaryOperators \cup {"tk_l_paren", "tk_list_open", "tk_dot"}

\* the token that closes a call or a subscript
Closer(op) ==
    IF op = "tk_l_paren" THEN <<Tok("tk_r_paren", ")")>>
    ELSE IF op = "tk_list_open" THEN <<Tok("tk_list_close", "]")>>
    ELSE <<>>

\* a op1 b op2 c
Operands(op1, op2) ==
    <<Id("a"), Tok(op1, op1), Id("b")>> \o Closer(op1)
        \o <<Tok(op2, op2), Id("c")>> \o Closer(op2)

\* the expressions of two infix tokens
ExprStreams ==
    { Operands(op1, op2) \o <<EofToken>> :
        op1 \in InfixTokens, op2 \in InfixTokens }

\* a line that ends in an operand or in a call
FirstLines ==
    { <<Id("a"), Tok("tk_plus", "+"), Id("b")>>,
      <<Id("a"), Tok("tk_l_paren", "("), Tok("tk_r_paren", ")")>>,
      <<Id("a"), Tok("tk_l_paren", "("), Id("b"), Tok("tk_r_paren", ")")>> }

\* a line that starts with a token of the precedence table, or with a name
NextLines ==
    { <<Tok("tk_minus", "-"), Id("c")>>,
      <<Tok("tk_l_paren", "("), Id("c"), Tok("tk_r_paren", ")")>>,
      <<Tok("tk_list_open", "["), Id("c"), Tok("tk_list_close", "]")>>,
      <<Id("c")>> }

\* two expression statements, one on each line
LineStreams ==
    { l1 \o <<TkNewLine>> \o l2 \o <<TkNewLine, EofToken>> :
        l1 \in FirstLines, l2 \in NextLines }

\* the short streams of at most max tokens, and the programs
TokenStreams(max) ==
    CutPrograms \cup ForPrograms \cup DecoratorPrograms
        \cup UNION {ShortStreams(n) : n \in 0..max}

GenInit ==
    /\ cg = NewCodegen
    /\ m_file = << "#include <cstdio>\n#include <functional>\ntypedef enum{error________PEREGRINE____PEREGRINE____AssertionError,error________PEREGRINE____PEREGRINE____ZeroDivisionError} error;\n" >>
    /\ stack = <<>>
    /\ status = "run"
    /\ last = [op |-> "Codegen", node |-> NoLiteral, idlog |-> <<>>]
    /\ visited = 0

ParserInit ==
    /\ GenInit
    /\ \E tokens \in TokenStreams(MaxTokens) : parser = NewParser(tokens)
    /\ statements = <<>>
    /\ displayed = <<>>
    /\ pstatus = "parsing"

\* one iteration of the loop of parse(): parseStatement, advance
ParseStatement ==
    /\ pstatus = "parsing"
    /\ parser.m_currentToken.tkType # "tk_eof"
    /\ LET r  == call("parseStatement", parser, NullNode)
           p1 == advance(r.p)
       IN /\ parser' = p1
          /\ statements' = Append(statements, r.node)
          /\ pstatus' = IF p1.thrown THEN "bad_alloc" ELSE "parsing"
    /\ UNCHANGED <<displayed, gvars>>

\* the loop of parse() has ended and m_errors is empty: return the Program
ParseReturn ==
    /\ pstatus = "parsing"
    /\ parser.m_currentToken.tkType = "tk_eof"
    /\ parser.m_errors = <<>>
    /\ pstatus' = "returned"
    /\ UNCHANGED <<parser, statements, displayed, gvars>>

\* the loop of parse() has ended and m_errors is not empty
ParseReport ==
    /\ pstatus = "parsing"
    /\ parser.m_currentToken.tkType = "tk_eof"
    /\ parser.m_errors # <<>>
    /\ pstatus' = "reporting"
    /\ UNCHANGED <<parser, statements, displayed, gvars>>

\* display(err) for the next record of m_errors
DisplayError ==
    /\ pstatus = "reporting"
    /\ Len(displayed) < Len(parser.m_errors)
    /\ displayed' = Append(displayed, parser.m_errors[Len(displayed) + 1])
    /\ UNCHANGED <<parser, statements, pstatus, gvars>>

\* exit(1)
Exit ==
    /\ pstatus = "reporting"
    /\ Len(displayed) = Len(parser.m_errors)
    /\ pstatus' = "exited"
    /\ UNCHANGED <<parser, statements, displayed, gvars>>

ParserNext ==
    \/ ParseStatement
    \/ ParseReturn
    \/ ParseReport
    \/ DisplayError
    \/ Exit

ParserSpec == ParserInit /\ [][ParserNext]_vars

\* the parser constructed on a stream of at most two tokens
CursorInit ==
    /\ GenInit
    /\ \E tokens \in UNION {ShortStreams(n) : n \in 0..2} :
            parser = NewParser(tokens)
    /\ statements = <<>>
    /\ displayed = <<>>
    /\ pstatus = "parsing"

\* a routine calls advance()
Advance ==
    /\ parser.m_tokIndex < MaxCursor
    /\ parser' = advance(parser)
    /\ last' = [op |-> "advance", node |-> NoLiteral, idlog |-> <<>>]
    /\ UNCHANGED <<cg, m_file, stack, status, visited,
                   statements, displayed, pstatus>>

\* a routine calls expect(expectedType)
Expect ==
    /\ parser.m_tokIndex < MaxCursor
    /\ \E expectedType \in {"tk_identifier", "tk_colon"} :
          /\ parser' = expect(parser, expectedType)
          /\ last' = [op |-> "expect", node |-> Tok(expectedType, ""),
                      idlog |-> <<>>]
    /\ UNCHANGED <<cg, m_file, stack, status, visited,
                   statements, displayed, pstatus>>

CursorNext ==
    \/ Advance
    \/ Expect

CursorSpec == CursorInit /\ [][CursorNext]_vars

\* the parser constructed on one or two expression statements, or on two
\* tokens
ExprInit ==
    /\ GenInit
    /\ \E tokens \in ExprStreams \cup LineStreams \cup ShortStreams(2) :
            parser = NewParser(tokens)
    /\ statements = <<>>
    /\ displayed = <<>>
    /\ pstatus = "parsing"

ExprSpec == ExprInit /\ [][ParserNext]_vars

\* parse() is one call that runs without interruption: each step that can be
\* taken is taken.  ParseStatement is enabled exactly when the loop condition
\* of parse() holds (advance always moves m_tokIndex), so its weak fairness is
\* written out with that condition in the place of ENABLED.
ParseLoopRuns ==
    \/ []<>~(pstatus = "parsing" /\ parser.m_currentToken.tkType # "tk_eof")
    \/ []<><<ParseStatement>>_vars

ParserFairSpec ==
    /\ ParserSpec
    /\ ParseLoopRuns
    /\ WF_vars(ParseReturn)
    /\ WF_vars(ParseReport)
    /\ WF_vars(DisplayError)
    /\ WF_vars(Exit)

----------------------------------------------------------------------------
(* The programs visited *)

VarNames == {"x", "a____pgx", "printf"}

Param(n) == [p_type |-> TypeExpr("int"), p_name |-> Ident(n), p_default |-> NoLiteral]

ExprNodes ==
    {Ident("x"), Ident("a____pgx"), Ident("f"), Ident("main"),
     Dot(Ident("E"), Ident("x")),
     Call(Ident("printf"), <<Ident("x")>>)}

\* "int x" and "x = 1"
VariableNodes ==
    {[type |-> "KAstVariableStmt", varType |-> TypeExpr("int"),
      name |-> Ident(n), value |-> NoLiteral] :
        n \in VarNames}
    \cup
    {[type |-> "KAstVariableStmt", varType |-> NoLiteral,
      name |-> Ident(n), value |-> IntegerLiteral] :
        n \in VarNames}

\* a function without "-> type" has the return type IdentifierExpression("void")
FunctionNodes ==
    { [type |-> "KAstFunctionDef", name |-> Ident("f"), parameters |-> <<>>,
       returnType |-> Ident("void")],
      [type |-> "KAstFunctionDef", name |-> Ident("f"),
       parameters |-> <<Param("x")>>, returnType |-> TypeExpr("int")],
      [type |-> "KAstFunctionDef", name |-> Ident("main"), parameters |-> <<>>,
       returnType |-> Ident("void")] }

\* functions that return a tuple of n types, without and with parameters
TupleType(n) ==
    [type |-> "KAstTypeTuple", items |-> [i \in 1..n |-> TypeExpr("int")]]

TupleFunctionNodes ==
    { [type |-> "KAstFunctionDef", name |-> Ident(name),
       parameters |-> ps, returnType |-> TupleType(n)] :
        name \in {"f"}, n \in 1..MaxReturns,
        ps \in {<<>>, <<Param("x"), Param("a____pgx")>>} }
    \cup
    { [type |-> "KAstFunctionDef", name |-> Ident("main"),
       parameters |-> <<>>, returnType |-> TupleType(MaxReturns)] }

ExportNodes ==
    {[type |-> "KAstExportStmt", body |-> fn] :
        fn \in {g \in FunctionNodes : g.name.value # "main"}}

ClassNodes ==
    [type : {"KAstClassDef"}, name : {Ident("E")}, parent : {<<>>, <<Ident("f")>>}]

UnionNodes ==
    [ type     : {"KAstUnion"},
      name     : {Ident("E")},
      elements : {<< <<TypeExpr("int"), Ident("x")>> >>} ]

EnumNodes ==
    [ type   : {"KAstEnum"},
      name   : {Ident("E")},
      fields : { << [first |-> Ident("x"), second |-> NoLiteral] >>,
                 << [first |-> Ident("x"), second |-> IntegerLiteral],
                    [first |-> Ident("f"), second |-> Ident("x")] >> } ]

WithNodes ==
    [ type      : {"KAstWith"},
      values    : {<<Ident("f")>>},
      variables : {<<NoLiteral>>, <<Ident("x")>>} ]

Block(stmts) == [type |-> "KAstBlockStmt", statements |-> stmts]

\* @d0 ... @d(k-1) in front of a function f
DecoratorNodes ==
    { [ type          |-> "KAstDecorator",
        decoratorItem |-> [i \in 1..k |-> Ident("d" \o to_string(i - 1))],
        body          |-> fn ] :
            k \in 1..MaxDecorators,
            fn \in {g \in FunctionNodes : g.name.value # "main"} }

\* except E, f as x:  /  except f:
ClauseNode(i) ==
    [ names   |-> IF i = 1 THEN <<Ident("E"), Ident("f")>> ELSE <<Ident("f")>>,
      alias   |-> IF i = 1 THEN Ident("x") ELSE NoLiteral,
      handler |-> Block(<<Ident("x")>>) ]

\* try: x, with up to MaxClauses except clauses, with and without else: x
TryNodes ==
    { [ type           |-> "KAstTryExcept",
        body           |-> Block(<<Ident("x")>>),
        except_clauses |-> [i \in 1..n |-> ClauseNode(i)],
        else_body      |-> else_body ] :
            n \in 0..MaxClauses,
            else_body \in {NoLiteral, Block(<<Ident("x")>>)} }

\* with f, ..., f: and with f as x, f, ..., f:
ResourceNodes ==
    { [ type      |-> "KAstWith",
        values    |-> [i \in 1..n |-> Ident("f")],
        variables |-> [i \in 1..n |-> IF i = 1 THEN v ELSE NoLiteral] ] :
            n \in 1..MaxResources, v \in {NoLiteral, Ident("x")} }

----------------------------------------------------------------------------
(* The traversal *)

Top == stack[Len(stack)]

Pop == SubSeq(stack, 1, Len(stack) - 1)

\* BlockStatement indents each statement; Program and the class loops do not
Open(s) ==
    IF stack # <<>> /\ Top.kind \in {"function", "with", "decorator"}
    THEN write(s, "    ") ELSE s

\* Program, BlockStatement and the class loops end each statement with ";\n"
Close(s) == write(s, ";\n")

\* the state flags of the generator
Flags(c) ==
    [ local          |-> c.local,
      is_ref         |-> c.is_ref,
      is_define      |-> c.is_define,
      is_func_def    |-> c.is_func_def,
      is_class       |-> c.is_class,
      is_dot_exp     |-> c.is_dot_exp,
      save           |-> c.save,
      curr_enum_name |-> c.curr_enum_name ]

\* a handler that is entered keeps, for observation, the flags of its entry
\* and the identifiers it has visited up to its body
Commit(s, op, node, stk) ==
    /\ cg' = [s EXCEPT !.out = <<>>, !.idlog = <<>>]
    /\ m_file' = s.out
    /\ stack' = IF Len(stk) > Len(stack)
                THEN Append(stack,
                            stk[Len(stk)] @@ [visit_flags |-> Flags(cg),
                                              visit_idlog |-> s.idlog])
                ELSE stk
    /\ last' = [op |-> op, node |-> node, idlog |-> s.idlog]
    /\ visited' = visited + 1
    /\ UNCHANGED <<status, pvars>>

\* the generator runs on the Program of a parse that has returned
Init ==
    /\ GenInit
    /\ parser = NewParser(<<EofToken>>)
    /\ statements = <<>>
    /\ displayed = <<>>
    /\ pstatus = "returned"

ExpressionStatement ==
    /\ status = "run"
    /\ visited < MaxVisits
    /\ \E node \in ExprNodes :
          Commit(Close(accept(node, Open(cg))), "Expression", node, stack)

VariableStatement ==
    /\ status = "run"
    /\ visited < MaxVisits
    /\ \E node \in VariableNodes :
          Commit(Close(accept(node, Open(cg))),
                 "VariableStatement", node, stack)

UnionLiteral ==
    /\ status = "run"
    /\ visited < MaxVisits
    /\ \E node \in UnionNodes :
          Commit(Close(accept(node, Open(cg))),
                 "UnionLiteral", node, stack)

EnumLiteral ==
    /\ status = "run"
    /\ visited < MaxVisits
    /\ Len(cg.enum_name) < MaxEnums
    /\ \E node \in EnumNodes :
          Commit(Close(accept(node, Open(cg))),
                 "EnumLiteral", node, stack)

EnterFunctionDefinition ==
    /\ status = "run"
    /\ visited < MaxVisits
    /\ Len(stack) < MaxDepth
    /\ \E node \in FunctionNodes :
          LET h == accept(node, Open(cg))
          IN Commit(h.s, "EnterFunctionDefinition", node, Append(stack, h.frame))

EnterExportStatement ==
    /\ status = "run"
    /\ visited < MaxVisits
    /\ Len(stack) < MaxDepth
    /\ \E node \in ExportNodes :
          LET h == accept(node, Open(cg))
          IN Commit(h.s, "EnterExportStatement", node, Append(stack, h.frame))

ExitFunctionDefinition ==
    /\ status = "run"
    /\ visited < MaxVisits
    /\ stack # <<>>
    /\ Top.kind = "function"
    /\ Commit(Close(FunctionDefinitionTail(Top, cg)),
              "ExitFunctionDefinition", Top, Pop)

EnterClassDefinition ==
    /\ status = "run"
    /\ visited < MaxVisits
    /\ Len(stack) < MaxDepth
    /\ \E node \in ClassNodes :
          LET h == accept(node, Open(cg))
          IN Commit(h.s, "EnterClassDefinition", node, Append(stack, h.frame))

ExitClassDefinition ==
    /\ status = "run"
    /\ visited < MaxVisits
    /\ stack # <<>>
    /\ Top.kind = "class"
    /\ Commit(Close(ClassDefinitionTail(Top, cg)),
              "ExitClassDefinition", Top, Pop)

EnterWithStatement ==
    /\ status = "run"
    /\ visited < MaxVisits
    /\ Len(stack) < MaxDepth
    /\ \E node \in WithNodes :
          LET h == accept(node, Open(cg))
          IN Commit(h.s, "EnterWithStatement", node, Append(stack, h.frame))

ExitWithStatement ==
    /\ status = "run"
    /\ visited < MaxVisits
    /\ stack # <<>>
    /\ Top.kind = "with"
    /\ Commit(Close(WithStatementTail(Top, cg)),
              "ExitWithStatement", Top, Pop)

\* visit(FunctionDefinition) of a function with a tuple return type
EnterTupleFunction ==
    /\ status = "run"
    /\ visited < MaxVisits
    /\ Len(stack) < MaxDepth
    /\ \E node \in TupleFunctionNodes :
          LET h == accept(node, Open(cg))
          IN Commit(h.s, "EnterFunctionDefinition", node, Append(stack, h.frame))

\* visit(WithStatement) of a with-statement with one resource or more
EnterWithResources ==
    /\ status = "run"
    /\ visited < MaxVisits
    /\ Len(stack) < MaxDepth
    /\ \E node \in ResourceNodes :
          LET h == accept(node, Open(cg))
          IN Commit(h.s, "EnterWithStatement", node, Append(stack, h.frame))

EnterDecoratorStatement ==
    /\ status = "run"
    /\ visited < MaxVisits
    /\ Len(stack) < MaxDepth
    /\ \E node \in DecoratorNodes :
          LET h == accept(node, Open(cg))
          IN Commit(h.s, "EnterDecoratorStatement", node,
                    Append(stack, h.frame))

ExitDecoratorStatement ==
    /\ status = "run"
    /\ visited < MaxVisits
    /\ stack # <<>>
    /\ Top.kind = "decorator"
    /\ Commit(Close(DecoratorStatementTail(Top, cg)),
              "ExitDecoratorStatement", Top, Pop)

\* visit(TryExcept)
TryExcept ==
    /\ status = "run"
    /\ visited < MaxVisits
    /\ \E node \in TryNodes :
          Commit(Close(accept(node, Open(cg))), "TryExcept", node, stack)

\* a visit in the body throws (std::bad_alloc from a string or map operation):
\* no handler of codegen.cpp catches, the exception leaves every handler
Throw ==
    /\ status = "run"
    /\ visited < MaxVisits
    /\ stack # <<>>
    /\ status' = "unwinding"
    /\ last' = [op |-> "Throw", node |-> NoLiteral, idlog |-> <<>>]
    /\ m_file' = <<>>
    /\ UNCHANGED <<cg, stack, visited, pvars>>

\* the exception leaves the innermost handler: its locals curr_state and
\* symbol_map are destroyed, local_mangle_end is not executed
Unwind ==
    /\ status = "unwinding"
    /\ stack # <<>>
    /\ stack' = Pop
    /\ last' = [op |-> "Unwind", node |-> Top, idlog |-> <<>>]
    /\ status' = IF Len(stack) = 1 THEN "dead" ELSE "unwinding"
    /\ UNCHANGED <<cg, m_file, visited, pvars>>

Next ==
    \/ ExpressionStatement
    \/ VariableStatement
    \/ UnionLiteral
    \/ EnumLiteral
    \/ EnterFunctionDefinition
    \/ EnterExportStatement
    \/ ExitFunctionDefinition
    \/ EnterClassDefinition
    \/ ExitClassDefinition
    \/ EnterWithStatement
    \/ ExitWithStatement
    \/ Throw
    \/ Unwind

Spec == Init /\ [][Next]_vars

\* the traversal of programs made of the lowered constructs
\* visit(FunctionDefinition) at a nesting depth up to MaxNest
EnterNestedFunction ==
    /\ status = "run"
    /\ visited < MaxVisits
    /\ Len(stack) < MaxNest
    /\ \E node \in FunctionNodes :
          LET h == accept(node, Open(cg))
          IN Commit(h.s, "EnterFunctionDefinition", node, Append(stack, h.frame))

\* visit(ClassDefinition) at a nesting depth up to MaxNest
EnterNestedClass ==
    /\ status = "run"
    /\ visited < MaxVisits
    /\ Len(stack) < MaxNest
    /\ \E node \in ClassNodes :
          LET h == accept(node, Open(cg))
          IN Commit(h.s, "EnterClassDefinition", node, Append(stack, h.frame))

\* visit(WithStatement) at a nesting depth up to MaxNest
EnterNestedWith ==
    /\ status = "run"
    /\ visited < MaxVisits
    /\ Len(stack) < MaxNest
    /\ \E node \in WithNodes :
          LET h == accept(node, Open(cg))
          IN Commit(h.s, "EnterWithStatement", node, Append(stack, h.frame))

NestNext ==
    \/ EnterNestedFunction
    \/ EnterNestedClass
    \/ EnterNestedWith
    \/ ExitFunctionDefinition
    \/ ExitClassDefinition
    \/ ExitWithStatement

NestSpec == Init /\ [][NestNext]_vars

LowerNext ==
    \/ EnterTupleFunction
    \/ ExitFunctionDefinition
    \/ EnterWithResources
    \/ ExitWithStatement
    \/ TryExcept
    \/ EnterDecoratorStatement
    \/ ExitDecoratorStatement

LowerSpec == Init /\ [][LowerNext]_vars

----------------------------------------------------------------------------
(* class MangleName on its own: any sequence of its calls *)

MangleCall(op, name, ret) ==
    last' = [op |-> op, node |-> [name |-> name, ret |-> ret], idlog |-> <<>>]

MangleNames == {"x", "f", "printf"}

SetLocal ==
    \E n \in MangleNames :
        /\ cg' = [cg EXCEPT !.m_symbolMap = set_local(@, n)]
        /\ MangleCall("set_local", n, "")
        /\ UNCHANGED <<m_file, stack, status, visited, pvars>>

SetGlobal ==
    \E n \in MangleNames, mangled \in {"id", "unit"} :
        /\ cg' = [cg EXCEPT !.m_symbolMap =
                    set_global(@, n, IF mangled = "id" THEN n
                                     ELSE PREFIX \o m_global_name \o n)]
        /\ MangleCall("set_global", n, "")
        /\ UNCHANGED <<m_file, stack, status, visited, pvars>>

ClearLocal ==
    /\ cg' = [cg EXCEPT !.m_symbolMap = clear_local(@)]
    /\ MangleCall("clear_local", "", "")
    /\ UNCHANGED <<m_file, stack, status, visited, pvars>>

CallLookup ==
    \E n \in MangleNames :
        /\ MangleCall("lookup", n, lookup(cg.m_symbolMap, n))
        /\ UNCHANGED <<cg, m_file, stack, status, visited, pvars>>

CallContains ==
    \E n \in MangleNames :
        /\ MangleCall("contains", n, contains(cg.m_symbolMap, n))
        /\ UNCHANGED <<cg, m_file, stack, status, visited, pvars>>

MangleNext == SetLocal \/ SetGlobal \/ ClearLocal \/ CallLookup \/ CallContains

MangleSpec == Init /\ [][MangleNext]_vars

----------------------------------------------------------------------------
(* Properties *)

InLocal(sm, n) == n \in DOMAIN sm.m_local_names
InGlobal(sm, n) == n \in DOMAIN sm.m_global_names

\* the names a handler binds outside its local-mangle block
OwnNames(node) ==
    {node.name.value}
        \cup (IF "returnType" \in DOMAIN node /\ node.returnType.type = "KAstIdentifier"
              THEN {node.returnType.value} ELSE {})
        \cup (IF "parent" \in DOMAIN node
              THEN {node.parent[i].value : i \in 1..Len(node.parent)} ELSE {})

AllNames == {"f", "main", "x", "a____pgx", "printf", "E", "void"}

\* the two maps agree on every name outside `except`
SameExcept(sm1, sm2, except) ==
    \A n \in AllNames \ except :
        /\ InLocal(sm1, n) = InLocal(sm2, n)
        /\ InGlobal(sm1, n) = InGlobal(sm2, n)
        /\ InLocal(sm1, n) => sm1.m_local_names[n] = sm2.m_local_names[n]
        /\ InGlobal(sm1, n) => sm1.m_global_names[n] = sm2.m_global_names[n]

\* every name bound in sm2 is bound in sm1
Extends(sm1, sm2) ==
    /\ DOMAIN sm2.m_local_names \subseteq DOMAIN sm1.m_local_names
    /\ DOMAIN sm2.m_global_names \subseteq DOMAIN sm1.m_global_names

\* C1 as claimed: the symbol map after the visit of a top-level function, a
\* nested function, a class, a union or a with-block equals the symbol map
\* before the visit.
C1_MapEqualAfterVisit ==
    [][ /\ last'.op \in {"ExitFunctionDefinition", "ExitClassDefinition",
                         "ExitWithStatement"}
            => cg'.m_symbolMap = last'.node.visit_map
        /\ last'.op = "UnionLiteral" => cg'.m_symbolMap = cg.m_symbolMap ]_vars

\* C1 amended: when the visit of a function, a class or a union returns, the
\* bindings made inside its local-mangle block are gone: the symbol map is the
\* one saved by local_mangle_start, which differs from the map before the
\* visit at most in the names the handler binds outside the block (its own
\* name, a defaulted return type `void`, class parents); a nested function
\* restores the map exactly.  A with-block has no local-mangle block: every
\* name bound in the map before the visit is still bound after it.
C1_BlockBindingsDiscarded ==
    [][ /\ last'.op \in {"ExitFunctionDefinition", "ExitClassDefinition"}
            => LET fr == last'.node
               IN /\ cg'.m_symbolMap = fr.symbol_map
                  /\ SameExcept(cg'.m_symbolMap, fr.visit_map,
                                OwnNames(fr.node))
                  /\ fr.variant = "nested" => cg'.m_symbolMap = fr.visit_map
        /\ last'.op = "UnionLiteral"
            => SameExcept(cg'.m_symbolMap, cg.m_symbolMap,
                          {last'.node.name.value})
        /\ last'.op = "ExitWithStatement"
            => Extends(cg'.m_symbolMap, last'.node.visit_map) ]_vars

\* C1 witness: a function with parameter x has returned, x was bound in its
\* block and is no longer in the local map
C1_Witness ==
    /\ last.op = "ExitFunctionDefinition"
    /\ last.node.node.parameters # <<>>
    /\ ~InLocal(cg.m_symbolMap, "x")
    /\ cg.m_symbolMap = last.node.symbol_map

\* C2: whenever control leaves a local-mangle scoped block, by return or by an
\* exception, the local flag and the symbol map saved on entry are restored.
C2_RestoredOnEveryExit ==
    [][ (Len(stack') < Len(stack) /\ Top.kind \in {"function", "class"})
            => /\ cg'.local = Top.curr_state
               /\ cg'.m_symbolMap = Top.symbol_map ]_vars

\* C3: lookup returns the name itself for printf and error, else the local
\* mapping, else the global mapping, else the name; contains is true exactly
\* for reserved names and names in one of the two maps.
C3_LookupPrecedence ==
    LET n  == last.node.name
        sm == cg.m_symbolMap
    IN /\ last.op = "lookup" =>
            /\ n \in Reserved => last.node.ret = n
            /\ (n \notin Reserved /\ InLocal(sm, n))
                    => last.node.ret = sm.m_local_names[n]
            /\ (n \notin Reserved /\ ~InLocal(sm, n) /\ InGlobal(sm, n))
                    => last.node.ret = sm.m_global_names[n]
            /\ (n \notin Reserved /\ ~InLocal(sm, n) /\ ~InGlobal(sm, n))
                    => last.node.ret = n
       /\ last.op = "contains" =>
            last.node.ret = (n \in Reserved \/ InLocal(sm, n) \/ InGlobal(sm, n))

\* C3 witness: printf was inserted into the local map and looked up, and a name
\* in both maps was looked up
C3_Witness ==
    /\ last.op = "lookup"
    /\ last.node.name = "printf"
    /\ InLocal(cg.m_symbolMap, "printf")
    /\ InLocal(cg.m_symbolMap, "x") /\ InGlobal(cg.m_symbolMap, "x")

\* the five cases of an identifier visit; case 4 emits the local mangling, or
\* with `reservedBare` the bare name when the name is reserved
IdentifierCases(e, reservedBare) ==
    LET x == e.x
    IN IF e.is_ref
       THEN e.emitted = <<PREFIX \o x>> /\ e.after = e.before
       ELSE IF e.curr_enum_name # ""
       THEN /\ Flatten(e.emitted)
                = lookup(e.before, e.curr_enum_name) \o ENUMSEP \o x
            /\ e.after = e.before
       ELSE IF ~(x \in Reserved \/ InLocal(e.before, x) \/ InGlobal(e.before, x))
       THEN /\ e.after # e.before
            /\ InLocal(e.after, x) \/ InGlobal(e.after, x)
            /\ e.emitted = <<lookup(e.after, x)>>
            /\ e.emitted # <<x>>
       ELSE IF e.is_define
       THEN /\ e.after.m_local_names
                = MapPut(e.before.m_local_names, x, PREFIX \o x)
            /\ e.after.m_global_names = e.before.m_global_names
            /\ e.emitted = <<IF reservedBare /\ x \in Reserved
                              THEN x ELSE PREFIX \o x>>
       ELSE e.emitted = <<lookup(e.before, x)>> /\ e.after = e.before

\* C4 as claimed: an identifier visit applies the first matching case of:
\* is_ref, curr_enum_name, absent name, is_define (insert locally and emit the
\* local mangling), plain lookup.
C4_CaseOrder ==
    \A i \in 1..Len(last.idlog) : IdentifierCases(last.idlog[i], FALSE)

\* C4 amended: as claimed, except that case 4 emits the looked-up form of the
\* name, which is the local mangling unless the name is reserved (printf,
\* error), for which the bare name is emitted.
C4_CaseOrderReserved ==
    \A i \in 1..Len(last.idlog) :
        IdentifierCases(last.idlog[i], TRUE)

\* C4 witness: inside a function whose name is known, a declaration of the
\* reserved name printf (case 4) was emitted bare after its local insertion
C4_Witness ==
    /\ stack # <<>>
    /\ InGlobal(cg.m_symbolMap, "f")
    /\ \E i \in 1..Len(last.idlog) :
          LET e == last.idlog[i]
          IN /\ ~e.is_ref /\ e.curr_enum_name = "" /\ e.is_define
             /\ e.x = "printf" /\ e.emitted = <<"printf">>
             /\ ~InLocal(e.before, "printf") /\ InLocal(e.after, "printf")

\* the insertion of a name that is in neither map
AbsentInsertion(e) ==
    LET x == e.x
    IN /\ InLocal(e.after, x) <=> e.local
       /\ e.local =>
            /\ e.after.m_local_names
                    = MapPut(e.before.m_local_names, x, PREFIX \o x)
            /\ e.after.m_global_names = e.before.m_global_names
       /\ ~e.local =>
            /\ e.after.m_global_names
                    = MapPut(e.before.m_global_names, x,
                             PREFIX \o m_global_name \o x)
            /\ e.after.m_local_names = e.before.m_local_names

InNeitherMap(e) ==
    /\ ~e.is_ref /\ e.curr_enum_name = ""
    /\ ~InLocal(e.before, e.x) /\ ~InGlobal(e.before, e.x)

\* C5 as claimed: an identifier in neither map is inserted into the local map
\* iff local is set, else into the global map with the unit prefix, the local
\* map unchanged.
C5_AbsentInsertedByScope ==
    \A i \in 1..Len(last.idlog) :
        InNeitherMap(last.idlog[i]) => AbsentInsertion(last.idlog[i])

\* C5 amended: the same for every identifier in neither map that is not one of
\* the reserved names printf and error (a reserved name counts as contained
\* and is not inserted as an absent name).
C5_AbsentInsertedUnlessReserved ==
    \A i \in 1..Len(last.idlog) :
        (InNeitherMap(last.idlog[i]) /\ last.idlog[i].x \notin Reserved)
            => AbsentInsertion(last.idlog[i])

\* C5 witness: inside a function body an unknown name was visited
C5_Witness ==
    /\ stack # <<>>
    /\ last.op = "Expression"
    /\ \E i \in 1..Len(last.idlog) :
          LET e == last.idlog[i]
          IN InNeitherMap(e) /\ e.x \notin Reserved /\ e.local
                /\ InLocal(e.after, e.x)

\* C6: the name of an exported function (identity-mapped in the global map) is
\* emitted bare, in its definition and in every later reference.
C6_ExportedNameBare ==
    \A i \in 1..Len(last.idlog) :
        LET e == last.idlog[i]
        IN (/\ ~e.is_ref /\ e.curr_enum_name = ""
            /\ e.x # "main"
            /\ InGlobal(e.before, e.x)
            /\ e.before.m_global_names[e.x] = e.x)
                => e.emitted = <<e.x>>

Bindings(sm) ==
    {<<"local", n>> : n \in DOMAIN sm.m_local_names}
        \cup {<<"global", n>> : n \in DOMAIN sm.m_global_names}

Spelling(sm, b) ==
    IF b[1] = "local" THEN sm.m_local_names[b[2]] ELSE sm.m_global_names[b[2]]

\* C9: two different (namespace, identifier) bindings of the symbol map never
\* have the same emitted spelling.
C9_NoCollision ==
    \A b1, b2 \in Bindings(cg.m_symbolMap) :
        b1 # b2 => Spelling(cg.m_symbolMap, b1) # Spelling(cg.m_symbolMap, b2)

\* the typedef the claim expects: every field spelled mangled(T) ENUMSEP field
RECURSIVE ExpectedEnumFields(_, _, _)
ExpectedEnumFields(fields, i, mT) ==
    IF i > Len(fields) THEN ""
    ELSE mT \o ENUMSEP \o fields[i].first.value
            \o (CASE fields[i].second.type = "KAstNoLiteral" -> ""
                  [] fields[i].second.type = "KAstInteger"
                        -> " = " \o fields[i].second.value
                  [] fields[i].second.type = "KAstIdentifier"
                        -> " = " \o mT \o ENUMSEP \o fields[i].second.value)
            \o (IF i # Len(fields) THEN ",\n" ELSE "")
            \o ExpectedEnumFields(fields, i + 1, mT)

Indent ==
    IF stack # <<>> /\ Top.kind \in {"function", "with", "decorator"}
    THEN "    " ELSE ""

\* C10: the definition of an enum field, a bare use of it in a sibling's
\* initializer and the dot reference T.f are all spelled
\* mangled(T) ________PEREGRINE____PEREGRINE____ f.
C10_EnumMemberSpelling ==
    /\ last.op = "EnumLiteral" =>
          LET mT == lookup(cg.m_symbolMap, last.node.name.value)
          IN Flatten(m_file)
                = Indent \o "typedef enum{\n"
                    \o ExpectedEnumFields(last.node.fields, 1, mT)
                    \o "\n}" \o mT \o ";\n"
    /\ (/\ last.op = "Expression"
        /\ last.node.type = "KAstDotExpression"
        /\ \E k \in 1..Len(cg.enum_name) :
                cg.enum_name[k] = last.node.owner.value) =>
          Flatten(m_file)
            = Indent \o lookup(cg.m_symbolMap, last.node.owner.value)
                \o ENUMSEP \o last.node.referenced.value \o ";\n"

IsPrefix(a, b) == Len(a) <= Len(b) /\ SubSeq(b, 1, Len(a)) = a

\* C7, the end of parse(): it returns a Program only with an empty m_errors,
\* it exits only with a non-empty m_errors of which every record has been
\* displayed, and no record ever leaves m_errors.
C7_ParseOutcome ==
    [][ /\ IsPrefix(parser.m_errors, parser'.m_errors)
        /\ pstatus' = "returned" =>
                parser'.m_errors = <<>> /\ displayed' = <<>>
        /\ pstatus' = "exited" =>
                parser'.m_errors # <<>> /\ displayed' = parser'.m_errors
        /\ pstatus' \in {"returned", "exited"} =>
                (pstatus' = "returned" <=> parser'.m_errors = <<>>) ]_vars

\* C7: once an error is recorded, every recorded error is displayed and the
\* process exits with status 1 (and parse() returns a Program otherwise).
C7_ErrorsReported ==
    (parser.m_errors # <<>>)
        ~> (pstatus = "exited" /\ displayed = parser.m_errors)

\* C8: for every token stream ended by EOF, parse() eventually returns the
\* Program or exits after reporting the errors.
C8_ParseTerminates == <>(pstatus \in {"returned", "exited"})

----------------------------------------------------------------------------
(* Properties of the lowerings *)

\* main is bound to itself in the global map sm
MainIsMain(sm) ==
    /\ InGlobal(sm, "main")
    /\ sm.m_global_names["main"] = "main"

\* main is bound to itself in the map and in every map a handler has saved
MainKept(c, stk) ==
    /\ MainIsMain(c.m_symbolMap)
    /\ \A i \in 1..Len(stk) : MainIsMain(stk[i].symbol_map)

\* C16: a top-level function main is emitted as "int main (" ... "return 0;"
\* "}" with its name as it is; when its visit returns main is bound to main
\* in the global map, the binding stays, and a later reference to main at
\* global scope emits main.
C16_MainVerbatim ==
    [][ /\ (last'.op = "EnterFunctionDefinition" /\ stack = <<>>
                /\ last'.node.name.value = "main")
            => m_file' = <<"int main (", ") {\n">>
        /\ (last'.op = "ExitFunctionDefinition" /\ stack' = <<>>
                /\ last'.node.node.name.value = "main")
            => /\ m_file' = <<"return 0;\n}", ";\n">>
               /\ MainKept(cg', stack')
               /\ lookup(cg'.m_symbolMap, "main") = "main"
        /\ MainKept(cg, stack) => MainKept(cg', stack')
        /\ (MainKept(cg, stack) /\ ~cg.local /\ last'.op = "Expression"
                /\ last'.node = Ident("main"))
            => Flatten(m_file') = Indent \o "main" \o ";\n" ]_vars

\* the strings of a sequence, with sep between consecutive ones
RECURSIVE Joined(_, _)
Joined(strs, sep) ==
    IF strs = <<>> THEN ""
    ELSE IF Len(strs) = 1 THEN strs[1]
    ELSE strs[1] \o sep \o Joined(Tail(strs), sep)

\* the parameter list of a function with a tuple return type: the ordinary
\* parameters, then one out-parameter for each component
TupleParameterList(node) ==
    LET m == Len(node.parameters)
        n == Len(node.returnType.items)
        ordinary == [i \in 1..m |->
                        node.parameters[i].p_type.value \o " "
                            \o PREFIX \o node.parameters[i].p_name.value]
        outs == [i \in 1..n |->
                    node.returnType.items[i].value
                        \o "*____PEREGRINE____RETURN____" \o to_string(i - 1)
                        \o "=NULL"]
    IN Joined(ordinary, ", ")
        \o (IF m > 0 /\ n > 0 THEN "," ELSE "")
        \o Joined(outs, ",")

\* the text of a function with a tuple return type up to its body: a
\* function definition, or a lambda when it is inside another function
TupleSignature(node, inFunction, name) ==
    IF inFunction
    THEN "auto " \o name \o "=[=](" \o TupleParameterList(node)
            \o ")mutable->" \o "void" \o " {\n"
    ELSE "void" \o " " \o name \o "(" \o TupleParameterList(node)
            \o ") {\n"

\* the text the step wrote for the name of the function it entered
EmittedName(l) ==
    IF l.idlog # <<>> THEN Flatten(l.idlog[1].emitted) ELSE l.node.name.value

\* the pieces the step has written, to the file or, in a decorated function,
\* to the accumulator res
StepText ==
    IF cg.save THEN SubSeq(cg'.res, Len(cg.res) + 1, Len(cg'.res))
    ELSE m_file'

EntersTupleFunction ==
    /\ last'.op = "EnterFunctionDefinition"
    /\ last'.node.returnType.type = "KAstTypeTuple"

\* C17 as claimed: every function with m parameters and a tuple return type
\* of n components is emitted with the return type void and the parameter
\* list of the m parameters followed by the n out-parameters
\* ____PEREGRINE____RETURN____0 .. (n-1), each "=NULL", one comma between
\* consecutive entries and none before the first or after the last.
C17_TupleOutParameters ==
    [][ EntersTupleFunction =>
            Flatten(StepText) =
                Indent \o TupleSignature(last'.node, cg.is_func_def,
                            EmittedName(last')) ]_vars

\* C17 amended: the same, for every function but a main that is not inside
\* another function, which is emitted as "int main (" with its ordinary
\* parameters only.
C17_TupleOutParametersButMain ==
    [][ EntersTupleFunction =>
            IF last'.node.name.value = "main" /\ ~cg.is_func_def
            THEN Flatten(StepText) = Indent \o "int main (" \o ") {\n"
            ELSE Flatten(StepText) =
                    Indent \o TupleSignature(last'.node, cg.is_func_def,
                                EmittedName(last')) ]_vars

\* C17 witness: a function with two parameters and MaxReturns return
\* components has been entered and its text ends the list without a comma
C17_Witness ==
    /\ last.op = "EnterFunctionDefinition"
    /\ last.node.returnType.type = "KAstTypeTuple"
    /\ Len(last.node.parameters) = 2
    /\ Len(last.node.returnType.items) = MaxReturns
    /\ Flatten(m_file) =
            "void " \o EmittedName(last) \o "("
                \o TupleParameterList(last.node) \o ") {\n"

\* the pieces written right after / right before each piece `marker`
RECURSIVE After(_, _)
After(pieces, marker) ==
    IF Len(pieces) < 2 THEN <<>>
    ELSE (IF pieces[1] = marker THEN <<pieces[2]>> ELSE <<>>)
            \o After(Tail(pieces), marker)

RECURSIVE Before(_, _)
Before(pieces, marker) ==
    IF Len(pieces) < 2 THEN <<>>
    ELSE (IF pieces[2] = marker THEN <<pieces[1]>> ELSE <<>>)
            \o Before(Tail(pieces), marker)

ContextDecl == "auto CONTEXT____MANAGER____PEREGRINE____"

ContextEnter == ".____PEREGRINE____PEREGRINE______enter__()"

ContextEnd == ".____PEREGRINE____PEREGRINE______end__();\n"

\* CONTEXT____MANAGER____PEREGRINE____0 .. (n-1)
Contexts(n) ==
    [i \in 1..n |-> "CONTEXT____MANAGER____PEREGRINE____" \o to_string(i - 1)]

\* C18: a with-statement with n resources declares the context variables
\* CONTEXT____MANAGER____PEREGRINE____0 .. (n-1), calls enter on each exactly
\* once, in that order, before the body, and calls end on each exactly once
\* after the body: the contexts ended are the contexts entered.
C18_ContextsEnteredAndEnded ==
    [][ /\ last'.op = "EnterWithStatement" =>
            LET n == Len(last'.node.values)
            IN /\ After(StepText, ContextDecl) =
                    [i \in 1..n |-> to_string(i - 1)]
               /\ Before(StepText, ContextEnter) = Contexts(n)
               /\ Before(StepText, ContextEnd) = <<>>
               /\ Top'.no_var = [i \in 1..n |-> to_string(i - 1)]
        /\ last'.op = "ExitWithStatement" =>
            LET n == Len(last'.node.node.values)
            IN /\ Before(StepText, ContextEnd) = Contexts(n)
               /\ Before(StepText, ContextEnter) = <<>>
               /\ After(StepText, ContextDecl) = <<>> ]_vars

\* C18 witness: a with-statement with MaxResources resources has returned
\* and the last context was ended
C18_Witness ==
    /\ last.op = "ExitWithStatement"
    /\ Len(last.node.node.values) = MaxResources
    /\ Before(m_file, ContextEnd)[MaxResources] =
            "CONTEXT____MANAGER____PEREGRINE____" \o to_string(MaxResources - 1)

\* the pieces that make the frame of a try statement
TryMarkers ==
    { "try{\n", "}\ncatch(error __PEREGRINE__exception){\n", "if (",
      "else if (", "__PEREGRINE__exception==", " or ", "){\n", "}\n",
      "else{", "throw __PEREGRINE__exception;\n", "}" }

IsTryMarker(piece) == piece \in TryMarkers

\* the test of a clause: ex == T1 or ex == T2 ...
RECURSIVE ClauseTest(_)
ClauseTest(n) ==
    IF n = 0 THEN <<>>
    ELSE IF n = 1 THEN <<"__PEREGRINE__exception==">>
    ELSE ClauseTest(n - 1) \o <<" or ", "__PEREGRINE__exception==">>

\* the if / else-if chain over the clauses i..Len(clauses)
RECURSIVE ClauseChain(_, _)
ClauseChain(clauses, i) ==
    IF i > Len(clauses) THEN <<>>
    ELSE <<IF i = 1 THEN "if (" ELSE "else if (">>
            \o ClauseTest(Len(clauses[i].names)) \o <<"){\n", "}\n">>
            \o ClauseChain(clauses, i + 1)

\* the frame of the catch dispatch: the chain, then the re-throw of a value
\* that no clause matched
CatchDispatch(node) ==
    <<"try{\n", "}\ncatch(error __PEREGRINE__exception){\n">>
        \o ClauseChain(node.except_clauses, 1)
        \o (IF Len(node.except_clauses) > 0
            THEN <<"else{", "throw __PEREGRINE__exception;\n", "}\n">>
            ELSE <<"throw __PEREGRINE__exception;\n">>)
        \o <<"}">>

\* C19: the catch dispatch of every TryExcept tests the clauses in source
\* order as an if / else-if chain, a clause matches when the caught value
\* equals any of its names, and a value that matches no clause reaches the
\* final else { throw } and is thrown again.
C19_CatchDispatch ==
    [][ last'.op = "TryExcept" =>
            SelectSeq(StepText, IsTryMarker) = CatchDispatch(last'.node) ]_vars

\* texts[1]( texts[2]( ... texts[n](inner) ... ))
RECURSIVE FirstOutermost(_, _)
FirstOutermost(texts, inner) ==
    IF texts = <<>> THEN inner
    ELSE texts[1] \o "(" \o FirstOutermost(Tail(texts), inner) \o ")"

\* texts[n]( ... texts[2]( texts[1](inner) ) ... )
RECURSIVE LastOutermost(_, _)
LastOutermost(texts, inner) ==
    IF texts = <<>> THEN inner
    ELSE texts[Len(texts)] \o "("
            \o LastOutermost(SubSeq(texts, 1, Len(texts) - 1), inner) \o ")"

\* the emitted names of the decorators of the frame, in source order
DecoratorTexts(frame, c) ==
    [i \in 1..Len(frame.node.decoratorItem) |->
        lookup(c.m_symbolMap, frame.node.decoratorItem[i].value)]

\* what the step has emitted, to the file or to the accumulator
Emitted(c, file) == IF c.save THEN Flatten(c.res) ELSE Flatten(file)

\* C11 as claimed: the decorators deco_0 .. deco_k of a function are emitted
\* as deco_k( ... deco_1( deco_0(inner) ) ... ): deco_0 is applied to the
\* inner lambda and deco_k is the outermost call.
C11_LastDecoratorOutermost ==
    [][ last'.op = "ExitDecoratorStatement" =>
            Emitted(cg', m_file') =
                last'.node.prev \o last'.node.x
                    \o LastOutermost(DecoratorTexts(last'.node, cg'),
                                     Flatten(cg.res) \o "\n}")
                    \o ";\n" ]_vars

\* C11 amended: the decorators are emitted as
\* deco_0( deco_1( ... deco_k(inner) ... )): deco_k, the one next to the
\* function, is applied to the inner lambda and deco_0 is the outermost call.
C11_FirstDecoratorOutermost ==
    [][ last'.op = "ExitDecoratorStatement" =>
            Emitted(cg', m_file') =
                last'.node.prev \o last'.node.x
                    \o FirstOutermost(DecoratorTexts(last'.node, cg'),
                                      Flatten(cg.res) \o "\n}")
                    \o ";\n" ]_vars

\* C11 witness: a function with MaxDecorators decorators has been emitted,
\* the text starts with the name of the function and the first decorator
C11_Witness ==
    /\ last.op = "ExitDecoratorStatement"
    /\ Len(last.node.node.decoratorItem) = MaxDecorators
    /\ ~cg.save
    /\ IsPrefix(last.node.x \o lookup(cg.m_symbolMap, "d0") \o "(",
                Flatten(m_file))

\* a decorated function is being visited
InDecorator(stk) == \E i \in 1..Len(stk) : stk[i].kind = "decorator"

\* the text of the decorated function of the frame, folded in its decorators
Folded(frame, c, inner) ==
    frame.x \o FirstOutermost(DecoratorTexts(frame, c), inner \o "\n}")

\* C21: while a DecoratorStatement is visited nothing of the decorated
\* function is written to the file; a DecoratorStatement visited with an
\* empty accumulator has, when it returns, written its folded text to the
\* file once and left save false and res empty; one nested in a decorated
\* body has appended its folded text once to the accumulator of the
\* enclosing one and left save true.
C21_FoldedTextWrittenOnce ==
    [][ /\ (InDecorator(stack') /\ last'.op \notin {"Throw", "Unwind"}) =>
            Flatten(m_file') = (IF cg.save THEN "" ELSE Indent)
        /\ (last'.op = "ExitDecoratorStatement" /\ last'.node.prev = "") =>
            /\ ~cg'.save
            /\ cg'.res = <<>>
            /\ Flatten(m_file') =
                    Folded(last'.node, cg', Flatten(cg.res)) \o ";\n"
        /\ (last'.op = "ExitDecoratorStatement" /\ last'.node.prev # "") =>
            /\ cg'.save
            /\ m_file' = <<>>
            /\ Flatten(cg'.res) =
                    last'.node.prev
                        \o Folded(last'.node, cg', Flatten(cg.res))
                        \o ";\n" ]_vars

\* C21 witness: a DecoratorStatement nested in a decorated body has returned
\* and its text is in the accumulator of the enclosing one
C21_Witness ==
    /\ last.op = "ExitDecoratorStatement"
    /\ last.node.prev # ""
    /\ InDecorator(stack)
    /\ cg.save
    /\ IsPrefix(last.node.prev \o last.node.x, Flatten(cg.res))

\* the traversal is in the body of a function
InFunction(stk) == \E i \in 1..Len(stk) : stk[i].kind = "function"

Pieces(file) == {file[i] : i \in 1..Len(file)}

\* ReturnType name(...) {
IsCFunction(file) ==
    /\ Pieces(file) \cap {"(", "int main ("} # {}
    /\ ") {\n" \in Pieces(file)
    /\ Pieces(file) \cap {"auto ", "=[=](", ")mutable->"} = {}

\* auto name=[=](...)mutable->ReturnType {
IsLambda(file) ==
    /\ IsPrefix(Indent \o "auto ", Flatten(file))
    /\ {"=[=](", ")mutable->", " {\n"} \subseteq Pieces(file)
    /\ Pieces(file) \cap {"(", "int main (", ") {\n"} = {}

\* C22: a FunctionDefinition is emitted as a C function exactly when it is
\* in the body of no function and as a lambda at every depth inside one;
\* is_func_def is true exactly while the traversal is in the body of a
\* top-level function and false again when the visit of that function has
\* returned.
C22_LambdaInsideFunction ==
    [][ /\ last'.op = "EnterFunctionDefinition" =>
            IF InFunction(stack) THEN IsLambda(m_file')
            ELSE IsCFunction(m_file')
        /\ last'.op \in {"EnterFunctionDefinition", "EnterClassDefinition",
                          "EnterWithStatement", "ExitFunctionDefinition",
                          "ExitClassDefinition", "ExitWithStatement"} =>
            (cg'.is_func_def <=> InFunction(stack')) ]_vars

\* C22 witness: a function three levels deep in function bodies has been
\* entered as a lambda
C22_Witness ==
    /\ last.op = "EnterFunctionDefinition"
    /\ Len(stack) = 3
    /\ \A i \in 1..3 : stack[i].kind = "function"
    /\ stack[1].variant # "nested"
    /\ stack[3].variant = "nested"
    /\ "=[=](" \in Pieces(m_file)
    /\ cg.is_func_def

\* C26: whenever the generator is at global scope (local is false) the local
\* map of the symbol map is empty, and a step taken at global scope leaves
\* the spelling of every name that was already in the global map as it was.
C26_LocalMapEmptyAtGlobalScope ==
    /\ []((status = "run" /\ ~cg.local) =>
                DOMAIN cg.m_symbolMap.m_local_names = {})
    /\ [][ (status' = "run" /\ ~cg.local /\ ~cg'.local) =>
                \A x \in DOMAIN cg.m_symbolMap.m_global_names :
                    lookup(cg'.m_symbolMap, x) = lookup(cg.m_symbolMap, x)
         ]_vars

\* the spelling that the entered function wrote for its own name
DefinitionSpelling(frame) ==
    LET IsName(r) == r.is_define /\ r.x = frame.node.name.value
    IN Flatten(SelectSeq(frame.visit_idlog, IsName)[1].emitted)

\* the spelling that a reference to the name x writes in the state c
ReferenceSpelling(x, c) == Flatten(accept(Ident(x), c).out)

\* C27: when a function g nested in a function body has been defined, a
\* reference to g that follows in the enclosing body is spelled as g was
\* spelled at its definition, also when g is the name of a known global.
C27_NestedNameKeepsSpelling ==
    [][ (last'.op = "ExitFunctionDefinition"
            /\ last'.node.variant = "nested") =>
            ReferenceSpelling(last'.node.node.name.value, cg') =
                DefinitionSpelling(last'.node) ]_vars

\* C20: when the visit of a node returns, each of the flags local, is_ref,
\* is_define, is_func_def, is_class, is_dot_exp, save and curr_enum_name has
\* the value it had when the visit began.
C20_FlagsRestored ==
    [][ /\ last'.op \in {"Expression", "VariableStatement", "UnionLiteral",
                          "EnumLiteral", "TryExcept"}
            => Flags(cg') = Flags(cg)
        /\ last'.op \in {"ExitFunctionDefinition", "ExitClassDefinition",
                          "ExitWithStatement", "ExitDecoratorStatement"}
            => Flags(cg') = last'.node.visit_flags ]_vars

\* C16 witness: main was defined at top level and a reference to it at global
\* scope has just been emitted
C16_Witness ==
    /\ last.op = "Expression"
    /\ last.node = Ident("main")
    /\ stack = <<>>
    /\ MainIsMain(cg.m_symbolMap)
    /\ Flatten(m_file) = "main;\n"

----------------------------------------------------------------------------
(* Properties of the parse routines *)

\* the first statement of the token stream has been parsed
Parsed(tokens) == parser.m_tokens = tokens /\ statements # <<>>

\* the node of def f(): a
ParsedFunction ==
    [ type |-> "KAstFunctionDef",
      returnType |-> Ident("void"),
      name |-> Ident("f"),
      parameters |-> <<>>,
      body |-> [type |-> "KAstBlockStmt", statements |-> <<Ident("a")>>] ]

\* C12: n >= 1 decorator lines followed by a function definition parse to a
\* DecoratorStatement whose decorator list holds the n decorator expressions
\* in source order and whose body is the parsed FunctionDefinition.
C12_DecoratorsKept ==
    \A n \in 1..MaxDecorators :
        Parsed(DecoratorProgram(n)) =>
            /\ statements[1].type = "KAstDecorator"
            /\ statements[1].decoratorItem =
                    [i \in 1..n |-> Ident("d" \o to_string(i))]
            /\ statements[1].body = ParsedFunction

\* C13: "for v1, ..., vn in s:" is parsed for every n >= 1 without an error
\* record, to a For node whose variables are v1, ..., vn in source order.
C13_ForVariables ==
    \A n \in 1..MaxVars :
        Parsed(ForProgram(n)) =>
            /\ parser.m_errors = <<>>
            /\ statements[1].type = "KAstForStatement"
            /\ <<statements[1].variable>> =
                    [i \in 1..n |-> Ident("v" \o to_string(i))]

\* the node an infix token builds from its two operands
Infix(op, left, right) ==
    CASE op = "tk_dot" ->
            [type |-> "KAstDotExpression", owner |-> left,
             referenced |-> right]
      [] op = "tk_l_paren" ->
            [type |-> "KAstFunctionCall", name |-> left,
             arguments |-> <<right>>]
      [] op = "tk_list_open" ->
            [type |-> "KAstListOrDictAccess", container |-> left,
             keyOrIndex |-> right]
      [] OTHER ->
            [type |-> "KAstBinaryOp", op |-> op, left |-> left,
             right |-> right]

LeftGrouped(op1, op2) ==
    Infix(op2, Infix(op1, Ident("a"), Ident("b")), Ident("c"))

RightGrouped(op1, op2) ==
    Infix(op1, Ident("a"), Infix(op2, Ident("b"), Ident("c")))

\* C23 as claimed: in every state of the parser, after any calls of advance
\* and expect, m_tokIndex is a valid index of m_tokens and m_currentToken is
\* the token at that index.
C23_CursorInRange ==
    /\ parser.m_tokIndex < Len(parser.m_tokens)
    /\ parser.m_currentToken = parser.m_tokens[parser.m_tokIndex + 1]

\* C23 amended: m_currentToken is the token at m_tokIndex while m_tokIndex is
\* a valid index, and the last token of m_tokens once m_tokIndex has run past
\* the end.
C23_CursorOrLastToken ==
    parser.m_currentToken =
        (IF parser.m_tokIndex < Len(parser.m_tokens)
         THEN parser.m_tokens[parser.m_tokIndex + 1]
         ELSE parser.m_tokens[Len(parser.m_tokens)])

\* C23 witness: advance and expect have moved m_tokIndex past the end of a
\* stream of two tokens and EOF
C23_Witness ==
    /\ Len(parser.m_tokens) = 3
    /\ parser.m_tokIndex > Len(parser.m_tokens)
    /\ parser.m_currentToken = EofToken
    /\ parser.m_errors # <<>>

\* C24: expect(kind) moves the cursor by exactly one token, appends exactly
\* one error record when the kind of next() is not kind, the zero token past
\* the end included, and appends none when it is.
C24_ExpectAdvancesOnce ==
    [][ last'.op = "expect" =>
            /\ parser'.m_tokIndex = parser.m_tokIndex + 1
            /\ parser'.m_tokens = parser.m_tokens
            /\ IF next(parser).tkType # last'.node.tkType
               THEN /\ Len(parser'.m_errors) = Len(parser.m_errors) + 1
                    /\ SubSeq(parser'.m_errors, 1, Len(parser.m_errors)) =
                            parser.m_errors
                    /\ parser'.m_errors[Len(parser'.m_errors)].tok =
                            next(parser)
               ELSE parser'.m_errors = parser.m_errors ]_vars

\* C24 witness: expect has met the zero token past the end and recorded it
C24_Witness ==
    /\ last.op = "expect"
    /\ parser.m_tokIndex >= Len(parser.m_tokens)
    /\ parser.m_errors # <<>>
    /\ parser.m_errors[Len(parser.m_errors)].tok = ZeroToken

\* the place in the stream of the NEWLINE that ends the first line
FirstNewLine(tokens) ==
    CHOOSE i \in 1..Len(tokens) :
        /\ tokens[i].tkType = "tk_new_line"
        /\ \A j \in 1..(i - 1) : tokens[j].tkType # "tk_new_line"

\* C25: an expression does not extend past the NEWLINE that ends its line:
\* when the first of two lines has been parsed, the parser is at the first
\* token of the second line, whatever that token is.
C25_ExpressionEndsAtNewLine ==
    (parser.m_tokens \in LineStreams /\ Len(statements) = 1) =>
        parser.m_tokIndex = FirstNewLine(parser.m_tokens)

\* C14: two binary operators of the same precedence level group to the left:
\* a op1 b op2 c parses to (a op1 b) op2 c, the exponent operator included.
C14_LeftAssociative ==
    \A op1 \in BinaryOperators, op2 \in BinaryOperators :
        (precedenceMap[op1] = precedenceMap[op2]
            /\ Parsed(Operands(op1, op2) \o <<EofToken>>)) =>
                /\ statements[1] = LeftGrouped(op1, op2)
                /\ parser.m_errors = <<>>

\* a ** b ** c has been parsed to (a ** b) ** c
C14_Witness ==
    /\ Parsed(Operands("tk_exponent", "tk_exponent") \o <<EofToken>>)
    /\ statements[1] = LeftGrouped("tk_exponent", "tk_exponent")
    /\ pstatus = "returned"

\* C15: of two infix tokens of different levels the one of the higher level
\* binds tighter: a op1 b op2 c groups as a op1 (b op2 c) when op2 is higher
\* and as (a op1 b) op2 c when op2 is lower; op1 is a binary operator or the
\* dot, op2 any infix token of the precedence table.
C15_HigherBindsTighter ==
    \A op1 \in BinaryOperators \cup {"tk_dot"}, op2 \in InfixTokens :
        Parsed(Operands(op1, op2) \o <<EofToken>>) =>
            /\ Level(precedenceMap[op2]) > Level(precedenceMap[op1]) =>
                    statements[1] = RightGrouped(op1, op2)
            /\ Level(precedenceMap[op2]) < Level(precedenceMap[op1]) =>
                    statements[1] = LeftGrouped(op1, op2)

====
